---- MODULE Spec2Model ----
(***************************************************************************)
(* Multi-instance Paxos of src/paxos (the modular variant: main.py,        *)
(* network.py, messages.py, roles/{client,proposer,acceptor,learner}.py).  *)
(*                                                                         *)
(* Every role is a single-threaded loop around one UDP multicast socket.   *)
(* A multicast group is modelled as the set of datagrams ever sent to it:  *)
(* a handler may take any datagram of its group at any time, any number    *)
(* of times, or never, which is loss, duplication and reordering.          *)
(***************************************************************************)
EXTENDS Integers, Sequences, FiniteSets, Bags, TLC

(***************************************************************************)
(* Bounds of the model.                                                    *)
(***************************************************************************)
MaxRound == 2        \* highest first component of a ballot a proposer may take
MaxInstance == 0     \* proposers and acceptors work on instances 0..MaxInstance
MaxSlot == 1         \* learners are sent decisions of instances 0..MaxSlot
MaxList == 2         \* longest promises / phase2b_msgs list a proposer keeps
MaxPending == 2      \* longest pending_values list a proposer keeps
MaxCount == 2        \* highest decision_counts entry a learner keeps
MaxAcceptors == 7    \* get_quorum is applied to acceptor counts 1..MaxAcceptors

(***************************************************************************)
(* Configuration.                                                          *)
(***************************************************************************)
TOTAL_ACCEPTORS == 3     \* cfg['acceptor_count'] = 3
num_proposers == 1       \* config keys starting with 'proposer': "proposers"

Acceptors == 1..TOTAL_ACCEPTORS
Proposers == {1, 2}
Learners == {1, 2}
Clients == {1, 2}
Instances == 0..MaxInstance
Slots == 0..MaxSlot

\* mutant: half of the acceptors, rounded up
get_quorum_half(n_acceptors) == (n_acceptors + 1) \div 2

\* math.ceil((n_acceptors + 1) / 2), "/" being Python's true division
get_quorum(n_acceptors) ==
    IF (n_acceptors + 1) % 2 = 0 THEN (n_acceptors + 1) \div 2
                                 ELSE ((n_acceptors + 1) \div 2) + 1

QUORUM_SIZE == get_quorum(TOTAL_ACCEPTORS)

(***************************************************************************)
(* Python values.  A command is the tuple (value, client_id); json.dumps   *)
(* writes a tuple as a JSON array and json.loads reads an array back as a  *)
(* list, and a list never equals a tuple.  Input lines are numbered: line  *)
(* 1 sorts before line 2 as Python strings do.                             *)
(***************************************************************************)
None == <<>>         \* Python None where a tuple, a list or a pair may stand
null == -1           \* JSON null in a number field (v_rnd_1, v_rnd_2)

\* the Python tuple (value, client_id); a JSON array read back is <<"list", ..>>
py_tuple(value, client_id) == <<"tuple", value, client_id>>

\* json.loads(json.dumps(v)): a tuple comes back as a list, None as None
json(v) == IF v # None /\ v[1] = "tuple" THEN <<"list", v[2], v[3]>> ELSE v

\* "if isinstance(v, list): v = tuple(v)"
as_tuple(v) == IF v # None /\ v[1] = "list" THEN <<"tuple", v[2], v[3]>> ELSE v

\* Python's order on (value, client_id) tuples: lexicographic
value_lt(v, w) == v[2] < w[2] \/ (v[2] = w[2] /\ v[3] < w[3])

\* Python's order on ballot pairs: lexicographic
rnd_lt(a, b) == a[1] < b[1] \/ (a[1] = b[1] /\ a[2] < b[2])
rnd_le(a, b) == a = b \/ rnd_lt(a, b)

\* the lines each client reads from stdin
stdin_lines == [c \in Clients |-> <<c>>]

(***************************************************************************)
(* messages.py                                                             *)
(***************************************************************************)
create_phase1a_message(c_rnd, instance, client_id) ==
    [type |-> "PHASE1A", c_rnd_1 |-> c_rnd[1], c_rnd_2 |-> c_rnd[2],
     slot |-> instance, client_id |-> client_id]

\* v_rnd is a pair or None; a pair is truthy, (0, 0) included
create_phase1b_message(rnd, v_rnd, v_val, instance, client_id) ==
    [type |-> "PHASE1B", rnd_1 |-> rnd[1], rnd_2 |-> rnd[2],
     v_rnd_1 |-> IF v_rnd # None THEN v_rnd[1] ELSE null,
     v_rnd_2 |-> IF v_rnd # None THEN v_rnd[2] ELSE null,
     v_val |-> json(v_val), slot |-> instance, client_id |-> client_id]

create_phase2a_message(c_rnd, c_val, instance, client_id) ==
    [type |-> "PHASE2A", c_rnd_1 |-> c_rnd[1], c_rnd_2 |-> c_rnd[2],
     c_val |-> json(c_val), client_id |-> client_id, slot |-> instance]

create_phase2b_message(v_rnd, v_val, instance, client_id) ==
    [type |-> "PHASE2B", v_rnd_1 |-> v_rnd[1], v_rnd_2 |-> v_rnd[2],
     v_val |-> json(v_val), slot |-> instance, client_id |-> client_id]

create_decision_message(v_val, instance) ==
    [type |-> "DECISION", v_val |-> json(v_val), slot |-> instance]

create_propose_message(value, client_id) ==
    [type |-> "PROPOSE", value |-> value, client_id |-> client_id]

(***************************************************************************)
(* State.                                                                  *)
(*   network[g]   the datagrams sent to config[g]                          *)
(*   stdin[c]     the lines client c has not read yet                      *)
(*   acceptor_states[a][instance]   rnd, v_rnd, v_val (acceptor.py)        *)
(*   prop[p]      the locals of proposer(config, p) (proposer.py)          *)
(*   lrn[l]       the locals of learner(config, l) and what it printed     *)
(*   last         the handler run that produced this state                 *)
(*   votes        history: every (acceptor, instance, ballot, value)       *)
(*                an acceptor accepted                                     *)
(*   sent1b       history: every (acceptor, instance, ballot) promise sent,*)
(*                with its datagram                                        *)
(*   handled[l]   history: the DECISION datagrams learner l has processed  *)
(*   single       the locals of the processes of the single-file variant   *)
(*                (src/paxos/paxos.py), one field per local                *)
(*   fake         the locals and the module globals of the processes of    *)
(*                the fake-paxos variant (src/fake-paxos/paxos.py)         *)
(***************************************************************************)
VARIABLES network, stdin, acceptor_states, prop, lrn, last, votes, sent1b, handled,
          single, fake

vars == <<network, stdin, acceptor_states, prop, lrn, last, votes, sent1b, handled,
          single, fake>>

\* everything but the record of the last handler run
core == <<network, stdin, acceptor_states, prop, lrn, votes, sent1b, handled,
          single, fake>>

\* a handler's sends: a sequence of <<group, datagram>>; a datagram sent to a
\* group no process has joined reaches nobody
sendto(net, out) ==
    [g \in DOMAIN net |-> net[g] \cup {out[k][2] : k \in {j \in 1..Len(out) : out[j][1] = g}}]

NoStep == [role |-> "none", id |-> 0, msg |-> [type |-> "none"], out |-> <<>>, n |-> 0]

\* Each specification keeps the history its claims read: the record of the
\* last handler run and handled[l] where `last` starts as NoStep, votes and
\* sent1b where it starts as NoTrace.
NoTrace == [role |-> "off", id |-> 0, msg |-> [type |-> "none"], out |-> <<>>, n |-> 0]
Tracing == last.role # "off"

\* a handler run that changes nothing and sends nothing leaves no trace; every
\* other run flips last.n, so that last' # last tells a recorded run
Record(role, id, msg, out) ==
    last' = IF ~ Tracing \/ (core' = core /\ out = <<>>) THEN last
            ELSE [role |-> role, id |-> id, msg |-> msg, out |-> out, n |-> 1 - last.n]

(***************************************************************************)
(* roles/acceptor.py                                                       *)
(***************************************************************************)
\* defaultdict(lambda: {"rnd": (0, 0), "v_rnd": (0, 0), "v_val": None})
acceptor_state_default == [rnd |-> <<0, 0>>, v_rnd |-> <<0, 0>>, v_val |-> None]

\* the keys of acceptor_states a run can touch: the instances 0..MaxSlot, and
\* None, which msg.get("slot") gives for a datagram without the field (JSON
\* null on the wire)
AcceptorKeys == Slots \cup {null}

\* decisions = {}: the acceptor never writes it
acceptor_decisions == <<>>

\* mutant: a repeated ballot is promised again
phase1a_accepts_equal(c_rnd, state) == rnd_le(state.rnd, c_rnd)

\* "if c_rnd > state["rnd"]"
phase1a_accepts(c_rnd, state) == rnd_lt(state.rnd, c_rnd)

\* mutant: the promised ballot itself is refused
phase2a_accepts_strict(c_rnd, state) == rnd_lt(state.rnd, c_rnd)

\* "if c_rnd >= state["rnd"]"
phase2a_accepts(c_rnd, state) == rnd_le(state.rnd, c_rnd)

\* the PHASE1A branch: the new record and the datagrams sent
acceptor_phase1a(state, msg) ==
    LET c_rnd == <<msg.c_rnd_1, msg.c_rnd_2>> IN
    IF phase1a_accepts(c_rnd, state)
    THEN LET new == [state EXCEPT !.rnd = c_rnd] IN
         [state |-> new,
          out |-> << <<"proposers",
                       create_phase1b_message(new.rnd,
                           IF new.v_val # None THEN new.v_rnd ELSE None,
                           new.v_val, msg.slot, msg.client_id)>> >>]
    ELSE [state |-> state, out |-> <<>>]

\* mutant: rnd is left as it was when a value is accepted
acceptor_phase2a_keeps_rnd(state, msg) ==
    LET c_rnd == <<msg.c_rnd_1, msg.c_rnd_2>> IN
    IF phase2a_accepts(c_rnd, state)
    THEN [state |-> [state EXCEPT !.v_rnd = c_rnd, !.v_val = msg.c_val],
          out |-> << <<"proposers",
                       create_phase2b_message(c_rnd, msg.c_val, msg.slot, msg.client_id)>> >>]
    ELSE [state |-> state, out |-> <<>>]

\* the PHASE2A branch: the new record and the datagrams sent
acceptor_phase2a(state, msg) ==
    LET c_rnd == <<msg.c_rnd_1, msg.c_rnd_2>>
        c_val == msg.c_val
    IN
    IF phase2a_accepts(c_rnd, state)
    THEN LET new == [rnd |-> c_rnd, v_rnd |-> c_rnd, v_val |-> c_val] IN
         [state |-> new,
          out |-> << <<"proposers",
                       create_phase2b_message(new.v_rnd, new.v_val,
                                              msg.slot, msg.client_id)>> >>]
    ELSE [state |-> state, out |-> <<>>]

\* the CATCHUP branch
acceptor_catchup(msg) ==
    << <<"learners", [type |-> "CATCHUP", decided |-> acceptor_decisions]>> >>

\* mutant: a promise raises rnd in the record of every instance
AcceptorPhase1A_every_instance(a, msg) ==
    /\ msg.type = "PHASE1A"
    /\ LET r == acceptor_phase1a(acceptor_states[a][msg.slot], msg) IN
       /\ acceptor_states' =
              [acceptor_states EXCEPT ![a] =
                  [i \in AcceptorKeys |->
                      IF r.out # <<>> THEN [@[i] EXCEPT !.rnd = r.state.rnd] ELSE @[i]]]
       /\ network' = sendto(network, r.out)
       /\ UNCHANGED <<stdin, prop, lrn, votes, sent1b, handled, single, fake>>
       /\ Record("acceptor", a, msg, r.out)

AcceptorPhase1A(a, msg) ==
    /\ msg.type = "PHASE1A"
    /\ LET r == acceptor_phase1a(acceptor_states[a][msg.slot], msg) IN
       /\ acceptor_states' = [acceptor_states EXCEPT ![a][msg.slot] = r.state]
       /\ network' = sendto(network, r.out)
       /\ sent1b' = IF r.out # <<>> /\ ~ Tracing
                    THEN sent1b \cup {[acc |-> a, slot |-> msg.slot,
                                       rnd |-> r.state.rnd, msg |-> r.out[1][2]]}
                    ELSE sent1b
       /\ UNCHANGED <<stdin, prop, lrn, votes, handled, single, fake>>
       /\ Record("acceptor", a, msg, r.out)

AcceptorPhase2A(a, msg) ==
    /\ msg.type = "PHASE2A"
    /\ LET r == acceptor_phase2a(acceptor_states[a][msg.slot], msg) IN
       /\ acceptor_states' = [acceptor_states EXCEPT ![a][msg.slot] = r.state]
       /\ network' = sendto(network, r.out)
       /\ votes' = IF r.out # <<>> /\ ~ Tracing
                   THEN votes \cup {[acc |-> a, slot |-> msg.slot,
                                     rnd |-> <<msg.c_rnd_1, msg.c_rnd_2>>,
                                     val |-> msg.c_val]}
                   ELSE votes
       /\ UNCHANGED <<stdin, prop, lrn, sent1b, handled, single, fake>>
       /\ Record("acceptor", a, msg, r.out)

\* mutant: answering a CATCHUP request forgets what the acceptor accepted
AcceptorCatchup_forgets(a, msg) ==
    /\ msg.type = "CATCHUP"
    /\ network' = sendto(network, acceptor_catchup(msg))
    /\ acceptor_states' = [acceptor_states EXCEPT
                              ![a] = [i \in AcceptorKeys |-> acceptor_state_default]]
    /\ UNCHANGED <<stdin, prop, lrn, votes, sent1b, handled, single, fake>>
    /\ Record("acceptor", a, msg, acceptor_catchup(msg))

AcceptorCatchup(a, msg) ==
    /\ msg.type = "CATCHUP"
    /\ network' = sendto(network, acceptor_catchup(msg))
    /\ UNCHANGED <<stdin, acceptor_states, prop, lrn, votes, sent1b, handled, single, fake>>
    /\ Record("acceptor", a, msg, acceptor_catchup(msg))

\* "msg.get(field)": None where the datagram has no such field
dict_get(msg, field) == IF field \in DOMAIN msg THEN msg[field] ELSE null

\* one pass of the receive loop (lines 20-84) over a datagram as it arrives,
\* fields possibly missing: states is acceptor_states, data the datagram, a
\* record with the field `garbage` standing for bytes json.loads rejects.
\* An exception leaves the loop body and is logged (lines 83-84).
acceptor_recv(states, data) ==
    LET dropped == [states |-> states, out |-> <<>>] IN
    IF "garbage" \in DOMAIN data THEN dropped                \* json.loads raises
    ELSE IF "type" \notin DOMAIN data THEN dropped           \* KeyError, line 24
    ELSE LET instance == dict_get(data, "slot")
             client_id == dict_get(data, "client_id")
         IN
         IF data.type = "PHASE1A"
         THEN IF {"c_rnd_1", "c_rnd_2"} \subseteq DOMAIN data
              THEN LET msg == [type |-> "PHASE1A", c_rnd_1 |-> data.c_rnd_1,
                               c_rnd_2 |-> data.c_rnd_2, slot |-> instance,
                               client_id |-> client_id]
                       r == acceptor_phase1a(states[instance], msg)
                   IN [states |-> [states EXCEPT ![instance] = r.state], out |-> r.out]
              ELSE dropped                                   \* KeyError, line 31
         ELSE IF data.type = "PHASE2A"
         THEN IF {"c_rnd_1", "c_rnd_2", "c_val"} \subseteq DOMAIN data
              THEN LET msg == [type |-> "PHASE2A", c_rnd_1 |-> data.c_rnd_1,
                               c_rnd_2 |-> data.c_rnd_2, c_val |-> data.c_val,
                               slot |-> instance, client_id |-> client_id]
                       r == acceptor_phase2a(states[instance], msg)
                   IN [states |-> [states EXCEPT ![instance] = r.state], out |-> r.out]
              ELSE dropped                                   \* KeyError, lines 52-53
         ELSE IF data.type = "CATCHUP"
         THEN [states |-> states, out |-> acceptor_catchup(data)]
         ELSE dropped                                        \* no branch for the type

AcceptorRecv(a, data) ==
    LET r == acceptor_recv(acceptor_states[a], data) IN
    /\ acceptor_states' = [acceptor_states EXCEPT ![a] = r.states]
    /\ network' = sendto(network, r.out)
    /\ UNCHANGED <<stdin, prop, lrn, votes, sent1b, handled, single, fake>>
    /\ Record("acceptor", a, data, r.out)

\* the acceptor process is killed and started again: acceptor_states is the
\* empty defaultdict of lines 11-15 once more, nothing having been stored.
\* Taken when the acceptor holds an accepted value, the state a restart loses.
AcceptorRestart(a) ==
    /\ \E i \in Instances : acceptor_states[a][i].v_val # None
    /\ acceptor_states' = [acceptor_states EXCEPT
                              ![a] = [i \in AcceptorKeys |-> acceptor_state_default]]
    /\ UNCHANGED <<network, stdin, prop, lrn, votes, sent1b, handled, single, fake>>
    /\ Record("acceptor", a, [type |-> "restart"], <<>>)

(***************************************************************************)
(* roles/client.py                                                         *)
(***************************************************************************)
ClientSend(c) ==
    /\ stdin[c] # <<>>
    /\ LET proposal == create_propose_message(Head(stdin[c]), c) IN
       /\ network' = sendto(network, << <<"proposers", proposal>> >>)
       /\ stdin' = [stdin EXCEPT ![c] = Tail(@)]
       /\ UNCHANGED <<acceptor_states, prop, lrn, votes, sent1b, handled, single, fake>>
       /\ Record("client", c, [type |-> "stdin"], << <<"proposers", proposal>> >>)

(***************************************************************************)
(* roles/proposer.py                                                       *)
(*                                                                         *)
(* time.time() is kept as the class of its age: last_attempts[i] is        *)
(* "fresh" while now - last_attempts[i] <= INITIAL_TIMEOUT and "late"      *)
(* after; phase_start_times[i] is "unset" (the defaultdict's 0.0), "fresh" *)
(* while now - phase_start_times[i] <= PHASE_TIMEOUT and "late" after.     *)
(***************************************************************************)
\* mutant: the first ballot is the bare counter, without the proposer's id
proposer_init_counter(id) ==
    [c_rnd |-> <<id, 0>>,
     next_instance |-> 0,
     current_instances |-> {},
     pending_values |-> <<>>,
     promises |-> [i \in Slots |-> <<>>],
     phase2b_msgs |-> [i \in Slots |-> <<>>],
     last_attempts |-> [i \in Slots |-> "late"],
     phase_start_times |-> [i \in Slots |-> "unset"]]

proposer_init(id) ==
    [c_rnd |-> <<id, id>>,
     next_instance |-> 0,
     current_instances |-> {},
     pending_values |-> <<>>,
     promises |-> [i \in Slots |-> <<>>],
     phase2b_msgs |-> [i \in Slots |-> <<>>],
     last_attempts |-> [i \in Slots |-> "late"],
     phase_start_times |-> [i \in Slots |-> "unset"]]

\* what the bounds of the model allow a proposer's state to be
InBounds(st) ==
    /\ st.c_rnd[1] <= MaxRound
    /\ st.current_instances \subseteq Instances
    /\ st.next_instance <= MaxInstance + 1
    /\ Len(st.pending_values) <= MaxPending
    /\ \A i \in Slots : /\ Len(st.promises[i]) <= MaxList
                            /\ Len(st.phase2b_msgs[i]) <= MaxList

check_liveness(st, instance) ==
    ~ (instance \in Slots /\ st.phase_start_times[instance] = "late")

\* mutant: a restart keeps the replies collected for the abandoned attempt
start_phase1_keeps(st, instance) ==
    IF st.pending_values # <<>>
    THEN [st |-> [st EXCEPT !.current_instances = @ \cup {instance},
                            !.last_attempts[instance] = "fresh",
                            !.phase_start_times[instance] = "fresh"],
          out |-> << <<"acceptors",
                       create_phase1a_message(st.c_rnd, instance,
                                              st.pending_values[1][3])>> >>]
    ELSE [st |-> st, out |-> <<>>]

\* start_phase1 reads the c_rnd its caller has just set
start_phase1(st, instance) ==
    IF st.pending_values # <<>>
    THEN [st |-> [st EXCEPT !.current_instances = @ \cup {instance},
                            !.last_attempts[instance] = "fresh",
                            !.phase_start_times[instance] = "fresh",
                            !.promises[instance] = <<>>,
                            !.phase2b_msgs[instance] = <<>>],
          out |-> << <<"acceptors",
                       create_phase1a_message(st.c_rnd, instance,
                                              st.pending_values[1][3])>> >>]
    ELSE [st |-> st, out |-> <<>>]

\* how often v occurs in a list
count_of(list, v) == Cardinality({k \in 1..Len(list) : list[k] = v})

\* "max(value_counts.values())"
majority_count_of(list) ==
    CHOOSE n \in 1..Len(list) :
        /\ \E k \in 1..Len(list) : count_of(list, list[k]) = n
        /\ \A k \in 1..Len(list) : count_of(list, list[k]) <= n

\* "max(v for v, c in value_counts.items() if c == majority_count)"
majority_value_of(list) ==
    LET top == {list[k] : k \in {j \in 1..Len(list) :
                                 count_of(list, list[j]) = majority_count_of(list)}}
    IN CHOOSE v \in top : \A w \in top : w = v \/ value_lt(w, v)

\* "len(phase2b_msgs[msg_instance]) >= QUORUM_SIZE and ... majority_count >= QUORUM_SIZE"
phase2b_decides(list) ==
    Len(list) >= QUORUM_SIZE /\ majority_count_of(list) >= QUORUM_SIZE

\* mutant: a decided instance stays in current_instances
handle_phase2b_keeps_instance(st, msg_instance, msg_v_rnd, value0) ==
    IF msg_instance \in st.current_instances /\ msg_v_rnd = st.c_rnd
    THEN LET value == as_tuple(value0)
             st1 == [st EXCEPT !.phase2b_msgs[msg_instance] = Append(@, value)]
             list == st1.phase2b_msgs[msg_instance]
         IN
         IF phase2b_decides(list) /\ check_liveness(st1, msg_instance)
         THEN LET majority_value == majority_value_of(list)
                  decision == create_decision_message(majority_value, msg_instance)
                  st2 == st1
              IN
              IF st2.pending_values = <<>>   \* pending_values[0]: IndexError, logged
              THEN [st |-> st2, out |-> << <<"learners", decision>> >>]
              ELSE IF majority_value = st2.pending_values[1]
              THEN LET st3 == [st2 EXCEPT !.pending_values = Tail(@)] IN
                   IF st3.pending_values # <<>>
                   THEN LET r == start_phase1(st3, st3.next_instance) IN
                        [st |-> [r.st EXCEPT !.next_instance = @ + 1],
                         out |-> << <<"learners", decision>> >> \o r.out]
                   ELSE [st |-> st3, out |-> << <<"learners", decision>> >>]
              ELSE [st |-> st2, out |-> << <<"learners", decision>> >>]
         ELSE [st |-> st1, out |-> <<>>]
    ELSE [st |-> st, out |-> <<>>]

\* handle_phase2b: the reply is counted, and a quorum of one value decides
handle_phase2b(st, msg_instance, msg_v_rnd, value0) ==
    IF msg_instance \in st.current_instances /\ msg_v_rnd = st.c_rnd
    THEN LET value == as_tuple(value0)
             st1 == [st EXCEPT !.phase2b_msgs[msg_instance] = Append(@, value)]
             list == st1.phase2b_msgs[msg_instance]
         IN
         IF phase2b_decides(list) /\ check_liveness(st1, msg_instance)
         THEN LET majority_value == majority_value_of(list)
                  decision == create_decision_message(majority_value, msg_instance)
                  st2 == [st1 EXCEPT !.current_instances = @ \ {msg_instance}]
              IN
              IF st2.pending_values = <<>>   \* pending_values[0]: IndexError, logged
              THEN [st |-> st2, out |-> << <<"learners", decision>> >>]
              ELSE IF majority_value = st2.pending_values[1]
              THEN LET st3 == [st2 EXCEPT !.pending_values = Tail(@)] IN
                   IF st3.pending_values # <<>>
                   THEN LET r == start_phase1(st3, st3.next_instance) IN
                        [st |-> [r.st EXCEPT !.next_instance = @ + 1],
                         out |-> << <<"learners", decision>> >> \o r.out]
                   ELSE [st |-> st3, out |-> << <<"learners", decision>> >>]
              ELSE [st |-> st2, out |-> << <<"learners", decision>> >>]
         ELSE [st |-> st1, out |-> <<>>]
    ELSE [st |-> st, out |-> <<>>]

\* mutant: a new command goes to the front of pending_values
proposer_propose_front(st, msg) ==
    LET value_tuple == py_tuple(msg.value, msg.client_id)
        st1 == [st EXCEPT !.pending_values = <<value_tuple>> \o @]
    IN
    IF Cardinality(st1.current_instances) = 0
    THEN LET r == start_phase1(st1, st1.next_instance) IN
         [st |-> [r.st EXCEPT !.next_instance = @ + 1], out |-> r.out]
    ELSE [st |-> st1, out |-> <<>>]

\* the PROPOSE branch
proposer_propose(st, msg) ==
    LET value_tuple == py_tuple(msg.value, msg.client_id)
        st1 == [st EXCEPT !.pending_values = Append(@, value_tuple)]
    IN
    IF Cardinality(st1.current_instances) = 0
    THEN LET r == start_phase1(st1, st1.next_instance) IN
         [st |-> [r.st EXCEPT !.next_instance = @ + 1], out |-> r.out]
    ELSE [st |-> st1, out |-> <<>>]

\* "[p for p in promises[msg_instance] if p["v_rnd"] is not None and p["v_val"] is not None]"
is_valid_promise(p) == p.v_rnd # None /\ p.v_val # None
valid_promises_of(list) == SelectSeq(list, is_valid_promise)

\* "max(valid_promises, key=lambda p: p["v_rnd"])": the first of the greatest
highest_promise_of(valid) ==
    valid[CHOOSE k \in 1..Len(valid) :
            /\ \A j \in 1..Len(valid) : rnd_le(valid[j].v_rnd, valid[k].v_rnd)
            /\ \A j \in 1..(k - 1) : valid[j].v_rnd # valid[k].v_rnd]

\* mutant: the proposer's own command whatever the promises report
select_c_val_own(list, pending_values) == pending_values[1]

\* the value PHASE2A carries, lines 121-130
select_c_val(list, pending_values) ==
    IF valid_promises_of(list) # <<>>
    THEN highest_promise_of(valid_promises_of(list)).v_val
    ELSE pending_values[1]

\* "len(promises[msg_instance]) >= QUORUM_SIZE"
promises_quorum(list) == Len(list) >= QUORUM_SIZE

\* the PHASE1B branch
proposer_phase1b(st, id, msg) ==
    LET msg_instance == msg.slot
        msg_rnd == <<msg.rnd_1, msg.rnd_2>>
    IN
    IF msg_instance \in st.current_instances
    THEN IF rnd_lt(st.c_rnd, msg_rnd)
         THEN start_phase1([st EXCEPT !.c_rnd = <<msg_rnd[1] + num_proposers, id>>],
                           msg_instance)
         ELSE IF msg_rnd = st.c_rnd
         THEN LET promise == [v_rnd |-> IF msg.v_rnd_1 # null
                                        THEN <<msg.v_rnd_1, msg.v_rnd_2>> ELSE None,
                              v_val |-> as_tuple(msg.v_val)]
                  st1 == [st EXCEPT !.promises[msg_instance] = Append(@, promise)]
                  list == st1.promises[msg_instance]
              IN
              IF st1.pending_values = <<>>   \* pending_values[0]: IndexError, logged
                 /\ promises_quorum(list) /\ check_liveness(st1, msg_instance)
              THEN [st |-> st1, out |-> <<>>]
              ELSE IF promises_quorum(list) /\ check_liveness(st1, msg_instance)
              THEN LET c_val == select_c_val(list, st1.pending_values)
                       client_id == st1.pending_values[1][3]
                       phase2a == create_phase2a_message(st1.c_rnd, c_val,
                                                         msg_instance, client_id)
                   IN [st |-> [st1 EXCEPT !.phase_start_times[msg_instance] = "fresh"],
                       out |-> << <<"acceptors", phase2a>> >>]
              ELSE [st |-> st1, out |-> <<>>]
         ELSE [st |-> st, out |-> <<>>]
    ELSE [st |-> st, out |-> <<>>]

\* mutant: a PHASE2B counts whatever ballot it carries
proposer_phase2b_any_ballot(st, msg) ==
    handle_phase2b(st, msg.slot, st.c_rnd, msg.v_val)

\* the PHASE2B branch
proposer_phase2b(st, msg) ==
    handle_phase2b(st, msg.slot, <<msg.v_rnd_1, msg.v_rnd_2>>, msg.v_val)

\* mutant: a retry keeps the ballot of the attempt that timed out
proposer_timeout_instance_same(st, id, instance) ==
    IF st.last_attempts[instance] = "late"
    THEN IF check_liveness(st, instance)
         THEN start_phase1(st, instance)
         ELSE [st |-> st, out |-> <<>>]
    ELSE [st |-> st, out |-> <<>>]

\* the BlockingIOError branch for one instance of list(current_instances);
\* "instance not in decided" always holds: decided is never written
proposer_timeout_instance(st, id, instance) ==
    IF st.last_attempts[instance] = "late"
    THEN IF check_liveness(st, instance)
         THEN start_phase1([st EXCEPT !.c_rnd = <<st.c_rnd[1] + num_proposers, id>>],
                           instance)
         ELSE [st |-> st, out |-> <<>>]
    ELSE [st |-> st, out |-> <<>>]

\* mutant: a DECISION of the head command starts the next instance although
\* another instance is in flight
proposer_decision_eager(st, msg) ==
    LET decided_value == as_tuple(msg.v_val) IN
    IF st.pending_values # <<>> /\ decided_value = st.pending_values[1]
    THEN LET st2 == [st EXCEPT !.pending_values = Tail(@)] IN
         IF st2.pending_values # <<>>
         THEN LET r == start_phase1(st2, st2.next_instance) IN
              [st |-> [r.st EXCEPT !.next_instance = @ + 1], out |-> r.out]
         ELSE [st |-> st2, out |-> <<>>]
    ELSE [st |-> st, out |-> <<>>]

\* the DECISION branch
proposer_decision(st, msg) ==
    LET decided_instance == msg.slot
        decided_value == as_tuple(msg.v_val)
        st1 == [st EXCEPT !.current_instances = @ \ {decided_instance}]
    IN
    IF st1.pending_values # <<>> /\ decided_value = st1.pending_values[1]
    THEN LET st2 == [st1 EXCEPT !.pending_values = Tail(@)] IN
         IF st2.pending_values # <<>> /\ Cardinality(st2.current_instances) = 0
         THEN LET r == start_phase1(st2, st2.next_instance) IN
              [st |-> [r.st EXCEPT !.next_instance = @ + 1], out |-> r.out]
         ELSE [st |-> st2, out |-> <<>>]
    ELSE [st |-> st1, out |-> <<>>]

\* proposer p runs a branch of its loop: r is the branch's result
ProposerRun(p, msg, r) ==
    /\ prop' = [prop EXCEPT ![p] = r.st]
    /\ network' = sendto(network, r.out)
    /\ UNCHANGED <<stdin, acceptor_states, lrn, votes, sent1b, handled, single, fake>>
    /\ Record("proposer", p, msg, r.out)

ProposerStep(p, msg, r) ==
    /\ InBounds(r.st)
    /\ ProposerRun(p, msg, r)

ProposerPropose(p, msg) ==
    /\ msg.type = "PROPOSE"
    /\ ProposerStep(p, msg, proposer_propose(prop[p], msg))

ProposerPhase1B(p, msg) ==
    /\ msg.type = "PHASE1B"
    /\ ProposerStep(p, msg, proposer_phase1b(prop[p], p, msg))

ProposerPhase2B(p, msg) ==
    /\ msg.type = "PHASE2B"
    /\ ProposerStep(p, msg, proposer_phase2b(prop[p], msg))

\* the window holds one instance, so the loop body runs for it alone
ProposerTimeout(p) ==
    \E instance \in prop[p].current_instances :
        /\ prop[p].current_instances = {instance}
        /\ ProposerStep(p, [type |-> "timeout"],
                        proposer_timeout_instance(prop[p], p, instance))

\* time passes at proposer p: an in-flight instance's attempt grows older than
\* INITIAL_TIMEOUT (0.2 s), and only then its phase older than PHASE_TIMEOUT
\* (0.5 s), the phase having started no earlier than the attempt
Tick(p) ==
    \E instance \in prop[p].current_instances :
        /\ \/ /\ prop[p].last_attempts[instance] = "fresh"
              /\ prop' = [prop EXCEPT ![p].last_attempts[instance] = "late"]
           \/ /\ prop[p].last_attempts[instance] = "late"
              /\ prop[p].phase_start_times[instance] = "fresh"
              /\ prop' = [prop EXCEPT ![p].phase_start_times[instance] = "late"]
        /\ UNCHANGED <<network, stdin, acceptor_states, lrn, votes, sent1b, handled, single, fake>>
        /\ Record("clock", p, [type |-> "tick"], <<>>)

(***************************************************************************)
(* roles/learner.py                                                        *)
(*                                                                         *)
(* decisions is a dict: a function whose domain is the recorded instances. *)
(* stdout is the sequence of lines printed, each with the instance whose   *)
(* value it is.  start_time is "inf" until a DECISION is handled, "fresh"  *)
(* from then on and "late" once it is more than CATCHUP_TIMEOUT (3 s) old. *)
(***************************************************************************)
learner_init ==
    [decisions |-> <<>>,
     decision_counts |-> [i \in Slots |-> 0],
     next_to_print |-> 0,
     requested_instances |-> {},
     start_time |-> "inf",
     stdout |-> <<>>]

\* mutant: a later value replaces the recorded one
learner_record_overwrite(st, instance, value) ==
    [st EXCEPT !.decisions = (instance :> value) @@ @,
               !.decision_counts[instance] = @ + 1]

\* lines 40-47 and 63-69: record the value, or count a repeat
learner_record(st, instance, value) ==
    IF instance \notin DOMAIN st.decisions
    THEN [st EXCEPT !.decisions = (instance :> value) @@ @,
                    !.decision_counts[instance] = 1]
    ELSE [st EXCEPT !.decision_counts[instance] = @ + 1]

\* "while next_to_print in decisions: print(...); next_to_print += 1"
RECURSIVE learner_print(_)
learner_print(st) ==
    IF st.next_to_print \in DOMAIN st.decisions
    THEN learner_print([st EXCEPT
             !.stdout = Append(@, [slot |-> st.next_to_print,
                                   line |-> st.decisions[st.next_to_print]]),
             !.next_to_print = @ + 1])
    ELSE st

\* mutant: a newly recorded value is printed on arrival
learner_decision_eager(st, msg) ==
    LET st1 == learner_record(st, msg.slot, msg.v_val) IN
    IF msg.slot \in DOMAIN st.decisions THEN st1
    ELSE [st1 EXCEPT !.stdout = Append(@, [slot |-> msg.slot, line |-> msg.v_val]),
                     !.next_to_print = IF msg.slot >= @ THEN msg.slot + 1 ELSE @]

\* mutant: a DECISION of an instance already printed is printed again
learner_decision_echo(st, msg) ==
    LET st1 == learner_print(learner_record(st, msg.slot, msg.v_val)) IN
    IF msg.slot \in DOMAIN st.decisions /\ msg.slot < st.next_to_print
    THEN [st1 EXCEPT !.stdout = Append(@, [slot |-> msg.slot,
                                           line |-> st1.decisions[msg.slot]])]
    ELSE st1

\* the DECISION branch
learner_decision(st, msg) ==
    learner_print([learner_record(st, msg.slot, msg.v_val) EXCEPT !.start_time = "fresh"])

\* a JSON object's keys are strings: str(i) and int(slot_str)
py_str(i) == <<"0", "1", "2", "3">>[i + 1]
py_int(slot_str) == CHOOSE i \in 0..3 : py_str(i) = slot_str

\* the CATCHUP branch: "for slot_str, value in catchup_data.items()"; the
\* keys are distinct, so the order of the loop does not show in its result
RECURSIVE learner_catchup_items(_, _, _)
learner_catchup_items(st, decided, slots) ==
    IF slots = {} THEN st
    ELSE LET slot_str == CHOOSE x \in slots : TRUE IN
         learner_catchup_items(learner_record(st, py_int(slot_str), decided[slot_str]),
                               decided, slots \ {slot_str})

\* mutant: the values of a CATCHUP response are recorded and not printed
learner_catchup_silent(st, msg) ==
    learner_catchup_items(st, msg.decided, DOMAIN msg.decided)

learner_catchup(st, msg) ==
    learner_print(learner_catchup_items(st, msg.decided, DOMAIN msg.decided))

\* "max(decisions.keys())"
max_of(S) == CHOOSE i \in S : \A j \in S : j <= i

\* the instances of range(next_to_print, max_instance + 1) neither recorded nor
\* requested before, in increasing order
RECURSIVE missing_from(_, _, _)
missing_from(st, instance, max_instance) ==
    IF instance > max_instance THEN <<>>
    ELSE IF instance \notin DOMAIN st.decisions /\ instance \notin st.requested_instances
    THEN <<instance>> \o missing_from(st, instance + 1, max_instance)
    ELSE missing_from(st, instance + 1, max_instance)

\* the BlockingIOError branch (lines 79-96): the new locals and the datagrams sent
learner_timeout(st) ==
    IF st.start_time = "late" /\ DOMAIN st.decisions # {}
    THEN LET missing_instances ==
                 missing_from(st, st.next_to_print, max_of(DOMAIN st.decisions))
         IN IF missing_instances # <<>>
            THEN [st |-> [st EXCEPT !.requested_instances =
                                        @ \cup {missing_instances[k] :
                                                    k \in 1..Len(missing_instances)}],
                  out |-> << <<"acceptors",
                               create_decision_message(None, missing_instances[1])>> >>]
            ELSE [st |-> st, out |-> <<>>]
    ELSE [st |-> st, out |-> <<>>]

LearnerTimeout(l) ==
    LET r == learner_timeout(lrn[l]) IN
    /\ lrn' = [lrn EXCEPT ![l] = r.st]
    /\ network' = sendto(network, r.out)
    /\ UNCHANGED <<stdin, acceptor_states, prop, votes, sent1b, handled, single, fake>>
    /\ Record("learner", l, [type |-> "timeout"], r.out)

\* time passes at learner l: the last DECISION grows older than CATCHUP_TIMEOUT
LearnerTick(l) ==
    /\ lrn[l].start_time = "fresh"
    /\ lrn' = [lrn EXCEPT ![l].start_time = "late"]
    /\ UNCHANGED <<network, stdin, acceptor_states, prop, votes, sent1b, handled, single, fake>>
    /\ Record("clock", l, [type |-> "tick"], <<>>)

LearnerStep(l, msg, st) ==
    /\ \A i \in Slots : st.decision_counts[i] <= MaxCount
    /\ lrn' = [lrn EXCEPT ![l] = st]
    /\ handled' = IF Tracing /\ msg.type = "DECISION"
                  THEN [handled EXCEPT ![l] = @ \cup {msg}] ELSE handled
    /\ UNCHANGED <<network, stdin, acceptor_states, prop, votes, sent1b, single, fake>>
    /\ Record("learner", l, msg, <<>>)

LearnerDecision(l, msg) ==
    /\ msg.type = "DECISION"
    /\ LearnerStep(l, msg, learner_decision(lrn[l], msg))

LearnerCatchup(l, msg) ==
    /\ msg.type = "CATCHUP"
    /\ LearnerStep(l, msg, learner_catchup(lrn[l], msg))

(***************************************************************************)
(* paxos.py, the single-file variant.  Its messages and its client are     *)
(* those of the modular variant.                                           *)
(***************************************************************************)
\* proposer(config, id), lines 186-193: last_attempt = 0 is long ago,
\* phase_start_time = None is "unset"
single_proposer_init(id) ==
    [c_rnd |-> <<0, id>>,
     instance |-> 0,
     pending_values |-> <<>>,
     promises |-> [i \in Slots |-> <<>>],
     phase2b_msgs |-> [i \in Slots |-> <<>>],
     decided |-> {},
     last_attempt |-> "late",
     phase_start_time |-> "unset"]

\* learner(config, id), lines 360-361, and what it printed.  decisions maps
\* a key to a dict from str(value) to a count; a dict is its items in
\* insertion order.  The DECISION branch uses the int msg["slot"] as the key,
\* the CATCHUP branch the str key of the JSON object: a key is its repr here.
single_learner_init ==
    [decisions |-> <<>>,
     confirmed_decisions |-> {},
     stdout |-> <<>>]

\* the locals of every process after its set-up (acceptor: lines 117-118),
\* and inbox[q], the datagrams in the receive socket of process q, which is
\* <<group, id>>; no socket is kept where the datagrams come from a set
single_init ==
    [acceptor_states |-> [a \in Acceptors |-> [i \in AcceptorKeys |-> acceptor_state_default]],
     decisions |-> [a \in Acceptors |-> <<>>],
     proposer |-> [p \in Proposers |-> single_proposer_init(p)],
     learner |-> [l \in Learners |-> single_learner_init],
     inbox |-> <<>>]

\* the acceptor's PHASE1A branch (lines 132-143)
single_acceptor_phase1a(state, msg) ==
    LET c_rnd == <<msg.c_rnd_1, msg.c_rnd_2>> IN
    IF rnd_lt(state.rnd, c_rnd)
    THEN LET new == [state EXCEPT !.rnd = c_rnd] IN
         [state |-> new,
          out |-> << <<"proposers",
                       create_phase1b_message(new.rnd, new.v_rnd, new.v_val,
                                              msg.slot, msg.client_id)>> >>]
    ELSE [state |-> state, out |-> <<>>]

\* the acceptor's PHASE2A branch (lines 145-159): v_rnd and v_val are set,
\* rnd is not; decisions[instance] is the accepted value and the client
single_acceptor_phase2a(state, decisions, msg) ==
    LET c_rnd == <<msg.c_rnd_1, msg.c_rnd_2>>
        c_val == msg.c_val
    IN
    IF rnd_le(state.rnd, c_rnd)
    THEN LET new == [state EXCEPT !.v_rnd = c_rnd, !.v_val = c_val] IN
         [state |-> new,
          decisions |-> (msg.slot :> <<c_val, msg.client_id>>) @@ decisions,
          out |-> << <<"proposers",
                       create_phase2b_message(new.v_rnd, new.v_val,
                                              msg.slot, msg.client_id)>> >>]
    ELSE [state |-> state, decisions |-> decisions, out |-> <<>>]

\* the acceptor's CATCHUP branch (lines 161-167): json.dumps turns the keys
\* of decisions into strings
single_acceptor_catchup(decisions) ==
    << <<"learners",
         [type |-> "CATCHUP",
          decided |-> [k \in {py_str(i) : i \in DOMAIN decisions} |-> decisions[py_int(k)]]]>> >>

\* check_liveness, lines 196-204
single_check_liveness(st) == st.phase_start_time # "late"

\* start_phase1, lines 206-216
single_start_phase1(st) ==
    IF st.pending_values # <<>>
    THEN [st |-> [st EXCEPT !.last_attempt = "fresh",
                            !.phase_start_time = "fresh",
                            !.promises[st.instance] = <<>>,
                            !.phase2b_msgs[st.instance] = <<>>],
          out |-> << <<"acceptors",
                       create_phase1a_message(st.c_rnd, st.instance,
                                              st.pending_values[1][3])>> >>]
    ELSE [st |-> st, out |-> <<>>]

\* the proposer's PROPOSE branch, lines 224-228
single_proposer_propose(st, msg) ==
    LET st1 == [st EXCEPT !.pending_values =
                    Append(@, py_tuple(msg.value, msg.client_id))] IN
    IF Len(st1.pending_values) = 1
    THEN single_start_phase1(st1)
    ELSE [st |-> st1, out |-> <<>>]

\* the proposer's PHASE1B branch, lines 230-274
single_proposer_phase1b(st, id, msg) ==
    LET msg_instance == msg.slot
        msg_rnd == <<msg.rnd_1, msg.rnd_2>>
    IN
    IF msg_instance = st.instance
    THEN IF rnd_lt(st.c_rnd, msg_rnd)
         THEN single_start_phase1([st EXCEPT !.c_rnd = <<msg_rnd[1] + 1, id>>])
         ELSE IF msg_rnd = st.c_rnd
         THEN LET promise == [v_rnd |-> IF msg.v_rnd_1 # null
                                        THEN <<msg.v_rnd_1, msg.v_rnd_2>> ELSE None,
                              v_val |-> as_tuple(msg.v_val)]
                  st1 == [st EXCEPT !.promises[st.instance] = Append(@, promise)]
                  list == st1.promises[st.instance]
              IN
              IF promises_quorum(list) /\ single_check_liveness(st1)
              THEN IF st1.pending_values = <<>>   \* pending_values[0]: IndexError, logged
                   THEN [st |-> st1, out |-> <<>>]
                   ELSE LET c_val == select_c_val(list, st1.pending_values)
                            client_id == st1.pending_values[1][3]
                            phase2a == create_phase2a_message(st1.c_rnd, c_val,
                                                              st1.instance, client_id)
                        IN [st |-> [st1 EXCEPT !.phase_start_time = "fresh"],
                            out |-> << <<"acceptors", phase2a>> >>]
              ELSE [st |-> st1, out |-> <<>>]
         ELSE [st |-> st, out |-> <<>>]
    ELSE [st |-> st, out |-> <<>>]

\* the proposer's PHASE2B branch, lines 276-322: one DECISION is sent when
\* the replies for the current instance reach a quorum of one value
single_proposer_phase2b(st, id, msg) ==
    LET msg_instance == msg.slot
        msg_v_rnd == <<msg.v_rnd_1, msg.v_rnd_2>>
    IN
    IF msg_instance = st.instance /\ rnd_lt(st.c_rnd, msg_v_rnd)
    THEN single_start_phase1([st EXCEPT !.c_rnd = <<msg_v_rnd[1] + 1, id>>])
    ELSE IF msg_instance = st.instance /\ msg_v_rnd = st.c_rnd
    THEN LET value == as_tuple(msg.v_val)
             st1 == [st EXCEPT !.phase2b_msgs[st.instance] = Append(@, value)]
             list == st1.phase2b_msgs[st.instance]
         IN
         IF phase2b_decides(list) /\ single_check_liveness(st1)
         THEN LET majority_value == majority_value_of(list)
                  decision == << <<"learners",
                                   create_decision_message(majority_value, st1.instance)>> >>
              IN
              IF st1.instance \notin st1.decided
              THEN LET st2 == [st1 EXCEPT !.decided = @ \cup {st1.instance}] IN
                   IF st2.pending_values = <<>>   \* pending_values[0]: IndexError, logged
                   THEN [st |-> st2, out |-> decision]
                   ELSE LET st3 == [st2 EXCEPT
                                       !.pending_values =
                                           IF majority_value = @[1] THEN Tail(@) ELSE @,
                                       !.instance = @ + 1,
                                       !.c_rnd = <<0, id>>]
                            r == single_start_phase1(st3)
                        IN [st |-> r.st, out |-> decision \o r.out]
              ELSE [st |-> st1, out |-> decision]
         ELSE [st |-> st1, out |-> <<>>]
    ELSE [st |-> st, out |-> <<>>]

\* repr of a key of the learner's decisions: of the int i, of the str str(i)
repr_int(i) == py_str(i)
repr_str(slot_str) == <<"'0'", "'1'", "'2'", "'3'">>[py_int(slot_str) + 1]

\* str(value_tuple), and eval of such a string
str_of(value_tuple) == <<"str", value_tuple>>
eval(value) == value[2]

\* "d[k] = d.get(k, 0) + 1" on a dict kept as its items in insertion order
dict_count(d, k) ==
    IF \E j \in 1..Len(d) : d[j].key = k
    THEN [j \in 1..Len(d) |-> IF d[j].key = k THEN [d[j] EXCEPT !.count = @ + 1] ELSE d[j]]
    ELSE Append(d, [key |-> k, count |-> 1])

\* decisions[key], a defaultdict(dict)
single_decisions_at(decisions, key) ==
    IF key \in DOMAIN decisions THEN decisions[key] ELSE <<>>

\* the count of str(value) in decisions[key]
single_count(decisions, key, value) ==
    LET d == single_decisions_at(decisions, key) IN
    IF \E j \in 1..Len(d) : d[j].key = value
    THEN d[CHOOSE j \in 1..Len(d) : d[j].key = value].count
    ELSE 0

\* the learner's DECISION branch, lines 375-388: the value is printed once
\* QUORUM_SIZE DECISION datagrams of the instance carried it
single_learner_decision(st, msg) ==
    LET instance == msg.slot
        value == str_of(msg.v_val)
        key == repr_int(instance)
        st1 == [st EXCEPT !.decisions =
                   (key :> dict_count(single_decisions_at(st.decisions, key), value)) @@ @]
        d == st1.decisions[key]
        full == {j \in 1..Len(d) : d[j].count >= QUORUM_SIZE}
    IN
    IF instance \notin st1.confirmed_decisions /\ full # {}
    THEN LET first == CHOOSE j \in full : \A k \in full : j <= k IN
         [st1 EXCEPT !.stdout = Append(@, [slot |-> instance, line |-> eval(d[first].key)[2]]),
                     !.confirmed_decisions = @ \cup {instance}]
    ELSE st1

\* one round of the loop of the CATCHUP branch, lines 392-398
single_learner_catchup_slot(st, slot, value_tuple) ==
    IF py_int(slot) \notin st.confirmed_decisions
    THEN LET value == str_of(value_tuple)
             key == repr_str(slot)
             st1 == [st EXCEPT !.decisions =
                        (key :> dict_count(single_decisions_at(st.decisions, key), value)) @@ @]
         IN
         IF single_count(st1.decisions, key, value) >= QUORUM_SIZE
         THEN [st1 EXCEPT !.stdout = Append(@, [slot |-> py_int(slot), line |-> value_tuple[2]]),
                          !.confirmed_decisions = @ \cup {py_int(slot)}]
         ELSE st1
    ELSE st

\* the learner's CATCHUP branch, lines 390-398: the slots in ascending order
RECURSIVE single_learner_catchup_from(_, _, _)
single_learner_catchup_from(st, decided, i) ==
    IF i > MaxSlot THEN st
    ELSE single_learner_catchup_from(
             IF py_str(i) \in DOMAIN decided
             THEN single_learner_catchup_slot(st, py_str(i), decided[py_str(i)][1])
             ELSE st,
             decided, i + 1)

single_learner_catchup(st, msg) ==
    single_learner_catchup_from(st, IF "decided" \in DOMAIN msg THEN msg.decided ELSE <<>>, 0)

\* socket q has one datagram less: msg was received from it
mcast_received(s, q, msg) ==
    IF q \in DOMAIN s.inbox /\ BagIn(msg, s.inbox[q])
    THEN [s EXCEPT !.inbox[q] = @ (-) SetToBag({msg})]
    ELSE s

\* every socket that joined the group of a datagram sent gets it once
RECURSIVE mcast_sent(_, _)
mcast_sent(s, out) ==
    IF out = <<>> THEN s
    ELSE mcast_sent(
             [s EXCEPT !.inbox = [q \in DOMAIN @ |->
                                     IF q[1] = Head(out)[1]
                                     THEN @[q] (+) SetToBag({Head(out)[2]})
                                     ELSE @[q]]],
             Tail(out))

\* process q of the variant runs a branch for msg: `new` is what it keeps,
\* out what it sends
SingleRun(q, role, msg, new, out) ==
    /\ single' = mcast_sent(mcast_received(new, q, msg), out)
    /\ network' = sendto(network, out)
    /\ UNCHANGED <<stdin, acceptor_states, prop, lrn, votes, sent1b, handled, fake>>
    /\ Record(role, q[2], msg, out)

SingleAcceptorPhase1A(a, msg) ==
    /\ msg.type = "PHASE1A"
    /\ LET r == single_acceptor_phase1a(single.acceptor_states[a][msg.slot], msg) IN
       SingleRun(<<"acceptors", a>>, "acceptor", msg,
                 [single EXCEPT !.acceptor_states[a][msg.slot] = r.state], r.out)

SingleAcceptorPhase2A(a, msg) ==
    /\ msg.type = "PHASE2A"
    /\ LET r == single_acceptor_phase2a(single.acceptor_states[a][msg.slot],
                                        single.decisions[a], msg) IN
       SingleRun(<<"acceptors", a>>, "acceptor", msg,
                 [single EXCEPT !.acceptor_states[a][msg.slot] = r.state,
                                !.decisions[a] = r.decisions], r.out)

SingleAcceptorCatchup(a, msg) ==
    /\ msg.type = "CATCHUP"
    /\ SingleRun(<<"acceptors", a>>, "acceptor", msg, single,
                 single_acceptor_catchup(single.decisions[a]))

SingleProposerStep(p, msg, r) ==
    SingleRun(<<"proposers", p>>, "proposer", msg,
              [single EXCEPT !.proposer[p] = r.st], r.out)

SingleProposerPropose(p, msg) ==
    /\ msg.type = "PROPOSE"
    /\ SingleProposerStep(p, msg, single_proposer_propose(single.proposer[p], msg))

SingleProposerPhase1B(p, msg) ==
    /\ msg.type = "PHASE1B"
    /\ SingleProposerStep(p, msg, single_proposer_phase1b(single.proposer[p], p, msg))

SingleProposerPhase2B(p, msg) ==
    /\ msg.type = "PHASE2B"
    /\ SingleProposerStep(p, msg, single_proposer_phase2b(single.proposer[p], p, msg))

SingleLearnerDecision(l, msg) ==
    /\ msg.type = "DECISION"
    /\ SingleRun(<<"learners", l>>, "learner", msg,
                 [single EXCEPT !.learner[l] = single_learner_decision(@, msg)], <<>>)

SingleLearnerCatchup(l, msg) ==
    /\ msg.type = "CATCHUP"
    /\ SingleRun(<<"learners", l>>, "learner", msg,
                 [single EXCEPT !.learner[l] = single_learner_catchup(@, msg)], <<>>)

\* client(config, id), lines 403-414
SingleClient(c) ==
    /\ stdin[c] # <<>>
    /\ LET proposal == << <<"proposers", create_propose_message(Head(stdin[c]), c)>> >> IN
       /\ single' = mcast_sent(single, proposal)
       /\ network' = sendto(network, proposal)
       /\ stdin' = [stdin EXCEPT ![c] = Tail(@)]
       /\ UNCHANGED <<acceptor_states, prop, lrn, votes, sent1b, handled, fake>>
       /\ Record("client", c, [type |-> "stdin"], proposal)

(***************************************************************************)
(* fake-paxos/paxos.py, each role run as its own process.                  *)
(***************************************************************************)
\* the highest timestamp (milliseconds) a proposer reads for a key
MaxStamp == 2
Stamps == 1..MaxStamp

\* the Message class, lines 20-85
phase_client(value, phase) == [value |-> value, phase |-> phase]

phase_1a(c_rnd, phase, key) ==
    [c_rnd_1 |-> c_rnd[1], c_rnd_2 |-> c_rnd[2], phase |-> phase,
     key_1 |-> key[1], key_2 |-> key[2]]

phase_1b(rnd, v_rnd, v_val, phase, key) ==
    [rnd_1 |-> rnd[1], rnd_2 |-> rnd[2], v_rnd_0 |-> v_rnd[1], v_rnd_1 |-> v_rnd[2],
     v_val |-> v_val, phase |-> phase, key_1 |-> key[1], key_2 |-> key[2]]

phase_2a(c_rnd, c_val, phase, key) ==
    [c_rnd_1 |-> c_rnd[1], c_rnd_2 |-> c_rnd[2], c_val |-> c_val, phase |-> phase,
     key_1 |-> key[1], key_2 |-> key[2]]

phase_2b(v_rnd, v_val, phase, key) ==
    [v_rnd_1 |-> v_rnd[1], v_rnd_2 |-> v_rnd[2], v_val |-> v_val, phase |-> phase,
     key_1 |-> key[1], key_2 |-> key[2]]

decision(v_val, phase, key) ==
    [v_val |-> v_val, phase |-> phase, key_1 |-> key[1], key_2 |-> key[2]]

\* handle_proposer_received_message, lines 87-103
handle_proposer_received_message(msg) ==
    IF "phase" \in DOMAIN msg /\ msg.phase \in {"Phase2B", "Client", "Phase1B"}
    THEN msg.phase ELSE "Unknown"

\* handle_acceptor_received_message, lines 105-118
handle_acceptor_received_message(msg) ==
    IF {"c_rnd_1", "c_rnd_2", "c_val"} \subseteq DOMAIN msg THEN "Phase2A"
    ELSE IF {"c_rnd_1", "c_rnd_2"} \subseteq DOMAIN msg THEN "Phase1A"
    ELSE "Unknown"

\* proposer(config, id), lines 215-220; promises and phase2b_responses are
\* defaultdict(list)
fake_proposer_init(id) ==
    [c_rnd_cnt |-> <<id, 0>>,
     c_rnd |-> <<>>,
     c_val |-> <<>>,
     promises |-> <<>>,
     phase2b_responses |-> <<>>,
     accepted_values |-> <<>>]

\* every process after its set-up.  active_acceptors (line 147) is a global
\* of the module, so each process has its own: an acceptor has added its id
\* to its own (lines 152-154), a proposer's is the empty set of line 147.
\* state[a] is the acceptor's `state` (line 156), decisions[l] the learner's
\* (line 281); inbox[q] is the receive socket of process q.
fake_init ==
    [active_acceptors |-> [q \in {<<"acceptors", a>> : a \in Acceptors}
                                 \cup {<<"proposers", p>> : p \in Proposers} |->
                              IF q[1] = "acceptors" THEN {q[2]} ELSE {}],
     state |-> [a \in Acceptors |-> <<>>],
     proposer |-> [p \in Proposers |-> fake_proposer_init(p)],
     decisions |-> [l \in Learners |-> <<>>],
     inbox |-> <<>>]

\* "if key not in state: state[key] = {...}", lines 170-172 and 190-192; a
\* value is a line of a client's stdin, and no value (None) is null
fake_state_at(state, id, key) ==
    IF key \in DOMAIN state THEN state
    ELSE (key :> [rnd |-> <<0, id>>, v_rnd |-> <<0, 0>>, v_val |-> null]) @@ state

\* the acceptor's Phase1A branch, lines 165-183
fake_acceptor_phase1a(state0, id, data) ==
    LET key == <<data.key_1, data.key_2>>
        state == fake_state_at(state0, id, key)
    IN
    IF data.c_rnd_1 > state[key].rnd[1]
       \/ (data.c_rnd_1 = state[key].rnd[1] /\ data.c_rnd_2 > state[key].rnd[2])
    THEN LET new == [state EXCEPT ![key].rnd = <<data.c_rnd_1, data.c_rnd_2>>] IN
         [state |-> new,
          out |-> << <<"proposers",
                       phase_1b(new[key].rnd, new[key].v_rnd, new[key].v_val,
                                "Phase1B", key)>> >>]
    ELSE [state |-> state, out |-> <<>>]

\* the acceptor's Phase2A branch, lines 185-205
fake_acceptor_phase2a(state0, id, data) ==
    LET key == <<data.key_1, data.key_2>>
        state == fake_state_at(state0, id, key)
        c_rnd == <<data.c_rnd_1, data.c_rnd_2>>
    IN
    IF rnd_le(state[key].rnd, c_rnd)
    THEN LET new == [state EXCEPT ![key].v_rnd = c_rnd, ![key].v_val = data.c_val] IN
         [state |-> new,
          out |-> << <<"proposers",
                       phase_2b(new[key].v_rnd, new[key].v_val, "Phase2B", key)>> >>]
    ELSE [state |-> state, out |-> <<>>]

\* d[key] of a defaultdict(list)
fake_list_at(d, key) == IF key \in DOMAIN d THEN d[key] ELSE <<>>

\* the proposer's Client branch, lines 229-239; timestamp is what
\* int(time.time() * 1000) returned
fake_proposer_client(st, id, timestamp, data) ==
    LET key == <<id, timestamp>>
        c_rnd_cnt == <<st.c_rnd_cnt[1], st.c_rnd_cnt[2] + 1>>
        st1 == [st EXCEPT !.c_rnd_cnt = c_rnd_cnt,
                          !.c_rnd = (key :> c_rnd_cnt) @@ @,
                          !.c_val = (key :> data.value) @@ @]
    IN [st |-> st1,
        out |-> << <<"acceptors", phase_1a(st1.c_rnd[key], "Phase1A", key)>> >>]

\* "for p in promises[key]: if p[0] != (0, 0): if k is None or p[0] > k: k = p[0]"
fake_highest_v_rnd(list) ==
    LET voted == {j \in 1..Len(list) : list[j][1] # <<0, 0>>} IN
    IF voted = {} THEN None
    ELSE list[CHOOSE j \in voted : \A i \in voted : rnd_le(list[i][1], list[j][1])][1]

\* the proposer's Phase1B branch, lines 241-268: active_acceptors is the
\* global of the proposer's own process
fake_proposer_phase1b(st, active_acceptors, data) ==
    LET key == <<data.key_1, data.key_2>>
        current_rnd == <<data.rnd_1, data.rnd_2>>
    IN
    IF key \in DOMAIN st.c_rnd /\ current_rnd = st.c_rnd[key]
    THEN LET v_rnd == <<data.v_rnd_0, data.v_rnd_1>>
             list == Append(fake_list_at(st.promises, key), <<v_rnd, data.v_val>>)
         IN
         IF 2 * Len(list) > Cardinality(active_acceptors)
         THEN LET k == fake_highest_v_rnd(list)
                  c_val == IF k # None
                           THEN list[CHOOSE j \in 1..Len(list) :
                                        /\ list[j][1] = k
                                        /\ \A i \in 1..(j - 1) : list[i][1] # k][2]
                           ELSE st.c_val[key]
              IN [st |-> [st EXCEPT !.c_val[key] = c_val,
                                    !.promises = (key :> <<>>) @@ @],
                  out |-> << <<"acceptors",
                               phase_2a(st.c_rnd[key], c_val, "Phase2A", key)>> >>]
         ELSE [st |-> [st EXCEPT !.promises = (key :> list) @@ @], out |-> <<>>]
    ELSE [st |-> st, out |-> <<>>]

\* the proposer's Phase2B branch, lines 269-275
fake_proposer_phase2b(st, active_acceptors, data) ==
    LET key == <<data.key_1, data.key_2>> IN
    IF key \in DOMAIN st.c_rnd
    THEN LET list == Append(fake_list_at(st.phase2b_responses, key), data)
             st1 == [st EXCEPT !.phase2b_responses = (key :> list) @@ @]
         IN
         IF Len(list) = (Cardinality(active_acceptors) \div 2) + 1
         THEN [st |-> st1,
               out |-> << <<"learners", decision(st1.c_val[key], "Decide", key)>> >>]
         ELSE [st |-> st1, out |-> <<>>]
    ELSE [st |-> st, out |-> <<>>]

\* the learner's loop, lines 283-293
fake_learner(decisions, data) ==
    LET key == <<data.key_1, data.key_2>> IN
    (key :> Append(fake_list_at(decisions, key), data.v_val)) @@ decisions

\* process q of the variant runs a branch for msg: `new` is what it keeps,
\* out what it sends
FakeRun(q, role, msg, new, out) ==
    /\ fake' = mcast_sent(mcast_received(new, q, msg), out)
    /\ network' = sendto(network, out)
    /\ UNCHANGED <<stdin, acceptor_states, prop, lrn, votes, sent1b, handled, single>>
    /\ Record(role, q[2], msg, out)

FakeAcceptorPhase1A(a, msg) ==
    /\ handle_acceptor_received_message(msg) = "Phase1A"
    /\ LET r == fake_acceptor_phase1a(fake.state[a], a, msg) IN
       FakeRun(<<"acceptors", a>>, "acceptor", msg, [fake EXCEPT !.state[a] = r.state], r.out)

FakeAcceptorPhase2A(a, msg) ==
    /\ handle_acceptor_received_message(msg) = "Phase2A"
    /\ LET r == fake_acceptor_phase2a(fake.state[a], a, msg) IN
       FakeRun(<<"acceptors", a>>, "acceptor", msg, [fake EXCEPT !.state[a] = r.state], r.out)

FakeProposerStep(p, msg, r) ==
    FakeRun(<<"proposers", p>>, "proposer", msg, [fake EXCEPT !.proposer[p] = r.st], r.out)

FakeProposerClient(p, msg) ==
    /\ handle_proposer_received_message(msg) = "Client"
    /\ \E timestamp \in Stamps :
          /\ \A key \in DOMAIN fake.proposer[p].c_rnd : key[2] <= timestamp
          /\ FakeProposerStep(p, msg, fake_proposer_client(fake.proposer[p], p, timestamp, msg))

FakeProposerPhase1B(p, msg) ==
    /\ handle_proposer_received_message(msg) = "Phase1B"
    /\ FakeProposerStep(p, msg,
           fake_proposer_phase1b(fake.proposer[p], fake.active_acceptors[<<"proposers", p>>], msg))

FakeProposerPhase2B(p, msg) ==
    /\ handle_proposer_received_message(msg) = "Phase2B"
    /\ FakeProposerStep(p, msg,
           fake_proposer_phase2b(fake.proposer[p], fake.active_acceptors[<<"proposers", p>>], msg))

FakeLearner(l, msg) ==
    FakeRun(<<"learners", l>>, "learner", msg,
            [fake EXCEPT !.decisions[l] = fake_learner(@, msg)], <<>>)

\* client(config, id), lines 295-305
FakeClient(c) ==
    /\ stdin[c] # <<>>
    /\ LET client_msg == << <<"proposers", phase_client(Head(stdin[c]), "Client")>> >> IN
       /\ fake' = mcast_sent(fake, client_msg)
       /\ network' = sendto(network, client_msg)
       /\ stdin' = [stdin EXCEPT ![c] = Tail(@)]
       /\ UNCHANGED <<acceptor_states, prop, lrn, votes, sent1b, handled, single>>
       /\ Record("client", c, [type |-> "stdin"], client_msg)

(***************************************************************************)
(* Specifications.                                                         *)
(***************************************************************************)
\* every process started; each learner has sent its initial CATCHUP request
\* (learner.py lines 25-28)
Started(trace, groups) ==
    /\ network = [g \in groups |-> IF g = "acceptors" /\ "learners" \in groups
                                   THEN {[type |-> "CATCHUP"]} ELSE {}]
    /\ stdin = stdin_lines
    /\ acceptor_states = [a \in Acceptors |-> [i \in AcceptorKeys |-> acceptor_state_default]]
    /\ prop = [p \in Proposers |-> proposer_init(p)]
    /\ lrn = [l \in Learners |-> learner_init]
    /\ last = trace
    /\ votes = {}
    /\ sent1b = {}
    /\ handled = [l \in Learners |-> {}]
    /\ single = single_init
    /\ fake = fake_init

\* what proposer p is and sends once the PROPOSE of client p has reached it
raced(p) == proposer_propose(proposer_init(p), create_propose_message(Head(stdin_lines[p]), p))

(***************************************************************************)
(* Spec: the competing-proposers run.  Client 1's PROPOSE has reached      *)
(* proposer 1 alone and client 2's proposer 2 alone, so the two proposers  *)
(* drive instance 0 with ballots (1, 1) and (2, 2) and different values;   *)
(* every phase ends within its timeouts.  Datagrams are lost, duplicated   *)
(* and reordered freely.                                                   *)
(***************************************************************************)
Init ==
    /\ network = [proposers |-> {create_propose_message(Head(stdin_lines[c]), c) : c \in Clients},
                  acceptors |-> {[type |-> "CATCHUP"]}
                                \cup {raced(p).out[1][2] : p \in Proposers},
                  learners |-> {}]
    /\ stdin = [c \in Clients |-> <<>>]
    /\ acceptor_states = [a \in Acceptors |-> [i \in AcceptorKeys |-> acceptor_state_default]]
    /\ prop = [p \in Proposers |-> raced(p).st]
    /\ lrn = [l \in Learners |-> learner_init]
    /\ last = NoTrace
    /\ votes = {}
    /\ sent1b = {}
    /\ handled = [l \in Learners |-> {}]
    /\ single = single_init
    /\ fake = fake_init

Next ==
    \/ \E p \in Proposers : \E msg \in network.proposers : ProposerPhase1B(p, msg)
    \/ \E p \in Proposers : \E msg \in network.proposers : ProposerPhase2B(p, msg)
    \/ \E a \in Acceptors : \E msg \in network.acceptors : AcceptorPhase1A(a, msg)
    \/ \E a \in Acceptors : \E msg \in network.acceptors : AcceptorPhase2A(a, msg)
    \/ \E l \in Learners : \E msg \in network.learners :
          \* each learner takes the first DECISION of an instance to reach it
          /\ msg.type = "DECISION"
          /\ msg.slot \notin DOMAIN lrn[l].decisions
          /\ LearnerDecision(l, msg)

Spec == Init /\ [][Next]_vars

(***************************************************************************)
(* The datagrams the senders' code can build, within the bounds.           *)
(***************************************************************************)
Ballots == {<<r, p>> : r \in 1..MaxRound, p \in Proposers}
Commands == {py_tuple(stdin_lines[c][k], c) : c \in Clients, k \in 1..1}

Phase1AMessages ==
    {create_phase1a_message(b, i, c) : b \in Ballots, i \in Instances, c \in Clients}

Phase2AMessages ==
    {create_phase2a_message(x[1], x[2], x[3], x[4]) :
        x \in Ballots \X Commands \X Instances \X Clients}

\* what an acceptor reports with a promise for ballot b: nothing accepted, or
\* a value accepted at a lower ballot
Phase1BMessages ==
    {create_phase1b_message(b, None, None, i, 1) : b \in Ballots, i \in Instances}
    \cup {create_phase1b_message(x[1], x[2], json(x[3]), x[4], 1) :
             x \in {y \in Ballots \X Ballots \X Commands \X Instances :
                       rnd_lt(y[2], y[1])}}

Phase2BMessages ==
    {create_phase2b_message(b, json(v), i, 1) : b \in Ballots, v \in Commands, i \in Instances}

DecisionMessages ==
    {create_decision_message(v, i) : v \in Commands, i \in Slots}

\* the CATCHUP responses the learner's CATCHUP branch reads values from:
\* "decided" maps str(instance) to a value, for some of the instances
CatchupResponses ==
    {[type |-> "CATCHUP", decided |-> [k \in {py_str(i) : i \in S} |-> json(f[py_int(k)])]] :
        S \in (SUBSET Slots) \ {{}}, f \in [Slots -> Commands]}

(***************************************************************************)
(* SpecAcceptor: two of the acceptors (acceptors share no state) under     *)
(* every sequence of PHASE1A and PHASE2A datagrams and the learners'       *)
(* CATCHUP request.                                                        *)
(***************************************************************************)
AcceptorsUnderTest == {a \in Acceptors : a < TOTAL_ACCEPTORS}

NextAcceptor ==
    \/ \E a \in AcceptorsUnderTest : \E msg \in Phase1AMessages : AcceptorPhase1A(a, msg)
    \/ \E a \in AcceptorsUnderTest : \E msg \in Phase2AMessages : AcceptorPhase2A(a, msg)
    \/ \E a \in AcceptorsUnderTest : \E msg \in network.acceptors : AcceptorCatchup(a, msg)

SpecAcceptor == Started(NoStep, {"acceptors", "learners"}) /\ [][NextAcceptor]_vars

(***************************************************************************)
(* SpecMalformed: acceptor 1 under every sequence of PHASE1A and           *)
(* PHASE2A datagrams, well-formed or not: bytes that are not JSON, and     *)
(* PHASE1A and PHASE2A datagrams with one required field missing.          *)
(***************************************************************************)
without(msg, field) == [f \in DOMAIN msg \ {field} |-> msg[f]]

MalformedDatagrams ==
    {[garbage |-> "not json"]}
    \cup {without(msg, f) : msg \in Phase1AMessages,
                            f \in {"type", "c_rnd_1", "c_rnd_2", "slot"}}
    \cup {without(msg, f) : msg \in Phase2AMessages,
                            f \in {"type", "c_rnd_1", "c_rnd_2", "c_val", "slot"}}

MalformedReceivers == {a \in Acceptors : a = 1}

NextMalformed ==
    \/ \E a \in MalformedReceivers : \E msg \in Phase1AMessages : AcceptorPhase1A(a, msg)
    \/ \E a \in MalformedReceivers : \E msg \in Phase2AMessages : AcceptorPhase2A(a, msg)
    \/ \E a \in MalformedReceivers : \E data \in MalformedDatagrams : AcceptorRecv(a, data)

SpecMalformed == Started(NoStep, {}) /\ [][NextMalformed]_vars

(***************************************************************************)
(* SpecInstances: acceptor 1 under every sequence of PHASE1A and PHASE2A   *)
(* datagrams for the instances 0..MaxSlot.                                 *)
(***************************************************************************)
Phase1AForSlots ==
    {create_phase1a_message(b, i, 1) : b \in Ballots, i \in Slots}

Phase2AForSlots ==
    {create_phase2a_message(x[1], x[2], x[3], 1) : x \in Ballots \X Commands \X Slots}

NextInstances ==
    \/ \E msg \in Phase1AForSlots : AcceptorPhase1A(1, msg)
    \/ \E msg \in Phase2AForSlots : AcceptorPhase2A(1, msg)

SpecInstances == Started(NoStep, {}) /\ [][NextInstances]_vars

(***************************************************************************)
(* SpecProposer: proposer 1 under the clients' PROPOSE datagrams, every    *)
(* sequence of PHASE1B and PHASE2B datagrams, and the passing of time.     *)
(***************************************************************************)
NextProposer ==
    \/ \E c \in Clients : ClientSend(c)
    \/ \E msg \in network.proposers : ProposerPropose(1, msg)
    \/ \E msg \in Phase1BMessages : ProposerPhase1B(1, msg)
    \/ \E msg \in Phase2BMessages : ProposerPhase2B(1, msg)
    \/ ProposerTimeout(1)
    \/ Tick(1)

SpecProposer == Started(NoStep, {"proposers"}) /\ [][NextProposer]_vars

(***************************************************************************)
(* SpecLearner: one learner (learners share no state) under every sequence *)
(* of DECISION datagrams, of the acceptors' CATCHUP responses (their       *)
(* "decided" is empty) and of CATCHUP responses whose "decided" holds      *)
(* values.                                                                 *)
(***************************************************************************)
LearnersUnderTest == {l \in Learners : l = 1}

NextLearner ==
    \/ \E a \in Acceptors : \E msg \in network.acceptors : AcceptorCatchup(a, msg)
    \/ \E l \in LearnersUnderTest : \E msg \in DecisionMessages : LearnerDecision(l, msg)
    \/ \E l \in LearnersUnderTest : \E msg \in network.learners \cup CatchupResponses :
          LearnerCatchup(l, msg)

SpecLearner == Started(NoStep, {"acceptors", "learners"}) /\ [][NextLearner]_vars

(***************************************************************************)
(* SpecCatchup: a learner that starts late.  PHASE2A datagrams reach two   *)
(* of the three acceptors until both hold one value accepted at one        *)
(* ballot for instance 0 (the instance is decided), and that traffic then  *)
(* stops; the learner's initial CATCHUP request reaches the acceptors, and *)
(* their responses the learner, from then on and without loss.             *)
(***************************************************************************)
decided_value(i, v) ==
    \E b \in Ballots :
        \A a \in AcceptorsUnderTest :
            acceptor_states[a][i].v_rnd = b /\ acceptor_states[a][i].v_val = v

all_decided == \A i \in Instances : \E v \in Commands : decided_value(i, json(v))

CatchupAnswered ==
    \E a \in Acceptors : \E msg \in network.acceptors : AcceptorCatchup(a, msg)

CatchupHandled ==
    \E l \in LearnersUnderTest : \E msg \in network.learners : LearnerCatchup(l, msg)

NextCatchup ==
    \/ /\ ~ all_decided
       /\ \E a \in AcceptorsUnderTest : \E msg \in Phase2AMessages : AcceptorPhase2A(a, msg)
    \/ all_decided /\ CatchupAnswered
    \/ all_decided /\ CatchupHandled

SpecCatchup ==
    /\ Started(NoStep, {"acceptors", "learners"})
    /\ [][NextCatchup]_vars
    /\ WF_vars(all_decided /\ CatchupAnswered)
    /\ WF_vars(all_decided /\ CatchupHandled)

(***************************************************************************)
(* SpecGap: instance 0 is decided at the acceptors, then a learner gets    *)
(* DECISION datagrams in any order, any of them possibly lost, while time  *)
(* passes.  Time does pass, the learner's timeout branch runs when it has  *)
(* something to do, and every datagram sent to the acceptors or by them is *)
(* delivered.                                                              *)
(***************************************************************************)
GapDecision ==
    \E l \in LearnersUnderTest : \E msg \in DecisionMessages :
        /\ msg.slot \in Instances => decided_value(msg.slot, msg.v_val)
        /\ LearnerDecision(l, msg)

GapTick == \E l \in LearnersUnderTest : LearnerTick(l)

GapTimeout == \E l \in LearnersUnderTest : LearnerTimeout(l)

GapAnswered == \E a \in Acceptors : \E msg \in network.acceptors : AcceptorRecv(a, msg)

NextGap ==
    \/ /\ ~ all_decided
       /\ \E a \in AcceptorsUnderTest : \E msg \in Phase2AMessages : AcceptorPhase2A(a, msg)
    \/ all_decided /\ GapDecision
    \/ all_decided /\ GapTick
    \/ all_decided /\ GapTimeout
    \/ all_decided /\ GapAnswered
    \/ all_decided /\ CatchupHandled

SpecGap ==
    /\ Started(NoStep, {"acceptors", "learners"})
    /\ [][NextGap]_vars
    /\ WF_vars(all_decided /\ GapTick)
    /\ WF_vars(all_decided /\ GapTimeout)
    /\ WF_vars(all_decided /\ GapAnswered)
    /\ WF_vars(all_decided /\ CatchupHandled)

\* command v is in the proposer's pending_values
received(p, v) ==
    \E k \in 1..Len(prop[p].pending_values) : prop[p].pending_values[k] = v

(***************************************************************************)
(* SpecOrder: one proposer and the two clients, every datagram taken from  *)
(* the network, lost, duplicated and reordered freely, while time passes.  *)
(* Of the three acceptors, 1 and 2 are heard: every reply of acceptor 3 is *)
(* lost.  The proposer works through instances 0..MaxSlot; a PROPOSE       *)
(* reaches it once.                                                        *)
(***************************************************************************)
InOrderBounds(st) ==
    /\ st.c_rnd[1] <= MaxRound
    /\ st.current_instances \subseteq Slots
    /\ st.next_instance <= MaxSlot + 1
    /\ Len(st.pending_values) <= MaxPending
    /\ \A i \in Slots : /\ Len(st.promises[i]) <= MaxList
                        /\ Len(st.phase2b_msgs[i]) <= MaxList

OrderStep(msg, r) == InOrderBounds(r.st) /\ ProposerRun(1, msg, r)

\* a PROPOSE reaches the proposer once
OrderPropose ==
    \E msg \in network.proposers :
        /\ msg.type = "PROPOSE"
        /\ ~ received(1, py_tuple(msg.value, msg.client_id))
        /\ \A d \in network.learners : d.v_val # json(py_tuple(msg.value, msg.client_id))
        /\ OrderStep(msg, proposer_propose(prop[1], msg))

OrderPhase1B ==
    \E msg \in network.proposers :
        msg.type = "PHASE1B" /\ OrderStep(msg, proposer_phase1b(prop[1], 1, msg))

OrderPhase2B ==
    \E msg \in network.proposers :
        msg.type = "PHASE2B" /\ OrderStep(msg, proposer_phase2b(prop[1], msg))

OrderTimeout ==
    \E instance \in prop[1].current_instances :
        /\ prop[1].current_instances = {instance}
        /\ OrderStep([type |-> "timeout"], proposer_timeout_instance(prop[1], 1, instance))

NextOrder ==
    \/ \E c \in Clients : ClientSend(c)
    \/ OrderPropose
    \/ OrderPhase1B
    \/ OrderPhase2B
    \/ OrderTimeout
    \/ Tick(1)
    \/ \E a \in AcceptorsUnderTest : \E msg \in network.acceptors : AcceptorPhase1A(a, msg)
    \/ \E a \in AcceptorsUnderTest : \E msg \in network.acceptors : AcceptorPhase2A(a, msg)

SpecOrder == Started(NoTrace, {"proposers", "acceptors", "learners"}) /\ [][NextOrder]_vars

(***************************************************************************)
(* SpecWindow: proposer 1 under the clients' PROPOSE datagrams, every      *)
(* sequence of PHASE1B, PHASE2B and DECISION datagrams for the instances   *)
(* 0..MaxSlot, and the passing of time.                                    *)
(***************************************************************************)
Phase1BForSlots ==
    {create_phase1b_message(b, None, None, i, 1) : b \in Ballots, i \in Slots}

Phase2BForSlots ==
    {create_phase2b_message(<<r, 1>>, json(v), i, 1) : r \in 1..MaxRound, v \in Commands, i \in Slots}

NextWindow ==
    \/ \E c \in Clients : ClientSend(c)
    \/ \E msg \in network.proposers :
          msg.type = "PROPOSE" /\ OrderStep(msg, proposer_propose(prop[1], msg))
    \/ \E msg \in Phase1BForSlots : OrderStep(msg, proposer_phase1b(prop[1], 1, msg))
    \/ \E msg \in Phase2BForSlots : OrderStep(msg, proposer_phase2b(prop[1], msg))
    \/ \E msg \in DecisionMessages : OrderStep(msg, proposer_decision(prop[1], msg))
    \/ OrderTimeout
    \/ Tick(1)

SpecWindow == Started(NoTrace, {"proposers"}) /\ [][NextWindow]_vars

(***************************************************************************)
(* SpecSingleAcceptor: an acceptor of the single-file variant (acceptors   *)
(* share no state) under every sequence of PHASE1A and PHASE2A datagrams   *)
(* and the learners' CATCHUP request.                                      *)
(***************************************************************************)
NextSingleAcceptor ==
    \/ \E a \in MalformedReceivers : \E msg \in Phase1AMessages : SingleAcceptorPhase1A(a, msg)
    \/ \E a \in MalformedReceivers : \E msg \in Phase2AMessages : SingleAcceptorPhase2A(a, msg)
    \/ \E a \in MalformedReceivers : SingleAcceptorCatchup(a, [type |-> "CATCHUP"])

SpecSingleAcceptor == Started(NoStep, {}) /\ [][NextSingleAcceptor]_vars

(***************************************************************************)
(* SpecSingle: a run of the single-file variant with proposer 1, the three *)
(* acceptors, learner 1 and client 1.  No datagram is lost or duplicated:  *)
(* every socket gets each datagram sent to its group once, and every       *)
(* process eventually receives what is in its socket.  Every phase ends    *)
(* within its timeouts, so the proposer's timeout branch does not run.     *)
(* The learner's CATCHUP request of lines 363-365 is in the acceptors'     *)
(* sockets from the start.                                                 *)
(***************************************************************************)
SingleProcs ==
    {<<"proposers", p>> : p \in {1}} \cup {<<"acceptors", a>> : a \in Acceptors}
        \cup {<<"learners", l>> : l \in LearnersUnderTest}

SingleStarted ==
    /\ network = [proposers |-> {}, acceptors |-> {[type |-> "CATCHUP"]}, learners |-> {}]
    /\ stdin = [c \in Clients |-> IF c = 1 THEN stdin_lines[c] ELSE <<>>]
    /\ acceptor_states = [a \in Acceptors |-> [i \in AcceptorKeys |-> acceptor_state_default]]
    /\ prop = [p \in Proposers |-> proposer_init(p)]
    /\ lrn = [l \in Learners |-> learner_init]
    /\ last = NoStep
    /\ votes = {}
    /\ sent1b = {}
    /\ handled = [l \in Learners |-> {}]
    /\ single = [single_init EXCEPT
                    !.inbox = [q \in SingleProcs |->
                                  IF q[1] = "acceptors"
                                  THEN SetToBag({[type |-> "CATCHUP"]}) ELSE EmptyBag]]
    /\ fake = fake_init

NextSingle ==
    \/ SingleClient(1)
    \/ \E msg \in BagToSet(single.inbox[<<"proposers", 1>>]) : SingleProposerPropose(1, msg)
    \/ \E msg \in BagToSet(single.inbox[<<"proposers", 1>>]) : SingleProposerPhase1B(1, msg)
    \/ \E msg \in BagToSet(single.inbox[<<"proposers", 1>>]) : SingleProposerPhase2B(1, msg)
    \/ \E a \in Acceptors : \E msg \in BagToSet(single.inbox[<<"acceptors", a>>]) :
          SingleAcceptorPhase1A(a, msg)
    \/ \E a \in Acceptors : \E msg \in BagToSet(single.inbox[<<"acceptors", a>>]) :
          SingleAcceptorPhase2A(a, msg)
    \/ \E a \in Acceptors : \E msg \in BagToSet(single.inbox[<<"acceptors", a>>]) :
          SingleAcceptorCatchup(a, msg)
    \/ \E l \in LearnersUnderTest : \E msg \in BagToSet(single.inbox[<<"learners", l>>]) :
          SingleLearnerDecision(l, msg)
    \/ \E l \in LearnersUnderTest : \E msg \in BagToSet(single.inbox[<<"learners", l>>]) :
          SingleLearnerCatchup(l, msg)

SpecSingle == SingleStarted /\ [][NextSingle]_vars /\ WF_vars(NextSingle)

(***************************************************************************)
(* SpecFake: a run of the fake-paxos variant, each role its own process:   *)
(* proposer 1, the three acceptors, learner 1 and client 1.  No datagram   *)
(* is lost or duplicated: every socket gets each datagram sent to its      *)
(* group once.                                                             *)
(***************************************************************************)
FakeStarted ==
    /\ network = [proposers |-> {}, acceptors |-> {}, learners |-> {}]
    /\ stdin = [c \in Clients |-> IF c = 1 THEN stdin_lines[c] ELSE <<>>]
    /\ acceptor_states = [a \in Acceptors |-> [i \in AcceptorKeys |-> acceptor_state_default]]
    /\ prop = [p \in Proposers |-> proposer_init(p)]
    /\ lrn = [l \in Learners |-> learner_init]
    /\ last = NoStep
    /\ votes = {}
    /\ sent1b = {}
    /\ handled = [l \in Learners |-> {}]
    /\ single = single_init
    /\ fake = [fake_init EXCEPT !.inbox = [q \in SingleProcs |-> EmptyBag]]

NextFake ==
    \/ FakeClient(1)
    \/ \E msg \in BagToSet(fake.inbox[<<"proposers", 1>>]) : FakeProposerClient(1, msg)
    \/ \E msg \in BagToSet(fake.inbox[<<"proposers", 1>>]) : FakeProposerPhase1B(1, msg)
    \/ \E msg \in BagToSet(fake.inbox[<<"proposers", 1>>]) : FakeProposerPhase2B(1, msg)
    \/ \E a \in Acceptors : \E msg \in BagToSet(fake.inbox[<<"acceptors", a>>]) :
          FakeAcceptorPhase1A(a, msg)
    \/ \E a \in Acceptors : \E msg \in BagToSet(fake.inbox[<<"acceptors", a>>]) :
          FakeAcceptorPhase2A(a, msg)
    \/ \E l \in LearnersUnderTest : \E msg \in BagToSet(fake.inbox[<<"learners", l>>]) :
          FakeLearner(l, msg)

SpecFake == FakeStarted /\ [][NextFake]_vars

(***************************************************************************)
(* SpecLive: one proposer, one learner and client 1, every datagram taken  *)
(* from the network.  Of the three acceptors, 1 and 2 are reachable and 3  *)
(* is not: every datagram that changes a reachable process's state is      *)
(* eventually handled by it, and the proposer's timeout branch eventually  *)
(* runs when it has something to do.  Nothing bounds how long a datagram   *)
(* takes, so time (Tick) may pass before it arrives.  A PROPOSE reaches    *)
(* the proposer once.                                                      *)
(***************************************************************************)
LivePropose ==
    \E msg \in network.proposers :
        /\ msg.type = "PROPOSE"
        /\ ~ received(1, py_tuple(msg.value, msg.client_id))
        /\ ProposerPropose(1, msg)
LivePhase1B == \E msg \in network.proposers : ProposerPhase1B(1, msg)
LivePhase2B == \E msg \in network.proposers : ProposerPhase2B(1, msg)
LivePhase1A(a) == \E msg \in network.acceptors : AcceptorPhase1A(a, msg)
LivePhase2A(a) == \E msg \in network.acceptors : AcceptorPhase2A(a, msg)
LiveDecision(l) == \E msg \in network.learners : LearnerDecision(l, msg)

NextLive ==
    \/ ClientSend(1)
    \/ LivePropose
    \/ LivePhase1B
    \/ LivePhase2B
    \/ \E a \in AcceptorsUnderTest : LivePhase1A(a)
    \/ \E a \in AcceptorsUnderTest : LivePhase2A(a)
    \/ \E l \in LearnersUnderTest : LiveDecision(l)
    \/ ProposerTimeout(1)
    \/ Tick(1)

SpecLive ==
    /\ Started(NoTrace, {"proposers", "acceptors", "learners"})
    /\ [][NextLive]_vars
    /\ WF_vars(ClientSend(1))
    /\ WF_vars(LivePropose) /\ WF_vars(LivePhase1B) /\ WF_vars(LivePhase2B)
    /\ \A a \in AcceptorsUnderTest : WF_vars(LivePhase1A(a)) /\ WF_vars(LivePhase2A(a))
    /\ \A l \in LearnersUnderTest : WF_vars(LiveDecision(l))
    /\ WF_vars(ProposerTimeout(1))

(***************************************************************************)
(* SpecBallots: the two proposers side by side, each driving instance 0    *)
(* for the command of its own client, under every sequence of PHASE1B      *)
(* datagrams of acceptors that have accepted nothing and the passing of    *)
(* time: the ballots they take and send.                                   *)
(***************************************************************************)
Phase1BNothingAccepted == {msg \in Phase1BMessages : msg.v_val = None}

InitBallots ==
    /\ network = [acceptors |-> {raced(p).out[1][2] : p \in Proposers}]
    /\ stdin = [c \in Clients |-> <<>>]
    /\ acceptor_states = [a \in Acceptors |-> [i \in AcceptorKeys |-> acceptor_state_default]]
    /\ prop = [p \in Proposers |-> raced(p).st]
    /\ lrn = [l \in Learners |-> learner_init]
    /\ last = NoStep
    /\ votes = {}
    /\ sent1b = {}
    /\ handled = [l \in Learners |-> {}]
    /\ single = single_init
    /\ fake = fake_init

NextBallots ==
    \/ \E p \in Proposers : \E msg \in Phase1BNothingAccepted : ProposerPhase1B(p, msg)
    \/ \E p \in Proposers : ProposerTimeout(p)
    \/ \E p \in Proposers : Tick(p)

SpecBallots == InitBallots /\ [][NextBallots]_vars

(***************************************************************************)
(* SpecQuorum: get_quorum applied to every acceptor count, and every pair  *)
(* of sets of that many of the acceptors.                                  *)
(***************************************************************************)
GetQuorum(n_acceptors) ==
    /\ last = NoStep
    /\ \E first, second \in SUBSET (1..n_acceptors) :
          /\ Cardinality(first) = get_quorum(n_acceptors)
          /\ Cardinality(second) = get_quorum(n_acceptors)
          /\ last' = [role |-> "get_quorum", n_acceptors |-> n_acceptors,
                      quorum |-> get_quorum(n_acceptors),
                      first |-> first, second |-> second]
    /\ UNCHANGED core

NextQuorum == \E n_acceptors \in 1..MaxAcceptors : GetQuorum(n_acceptors)

SpecQuorum == Started(NoStep, {}) /\ [][NextQuorum]_vars

(***************************************************************************)
(* SpecRestart: the competing-proposers run of Spec, the learners left     *)
(* out, in which one acceptor of the three crashes and restarts, any       *)
(* number of times.  The network loses and reorders but does not duplicate *)
(* what the acceptors send: a proposer receives a reply at most once for   *)
(* each acceptor that sent it.                                             *)
(***************************************************************************)
RestartingAcceptors == {a \in Acceptors : a = 1}

\* a copy of PHASE1B datagram msg that proposer p has not yet received
undelivered_phase1b(p, msg) ==
    msg.type = "PHASE1B" /\
    LET promise == [v_rnd |-> IF msg.v_rnd_1 # null
                              THEN <<msg.v_rnd_1, msg.v_rnd_2>> ELSE None,
                    v_val |-> as_tuple(msg.v_val)]
        senders == {a \in Acceptors : \E s \in sent1b : s.acc = a /\ s.msg = msg}
    IN (msg.slot \in prop[p].current_instances /\ <<msg.rnd_1, msg.rnd_2>> = prop[p].c_rnd)
           => count_of(prop[p].promises[msg.slot], promise) < Cardinality(senders)

\* a copy of PHASE2B datagram msg that proposer p has not yet received
undelivered_phase2b(p, msg) ==
    msg.type = "PHASE2B" /\
    LET senders == {a \in Acceptors :
                       [acc |-> a, slot |-> msg.slot, rnd |-> <<msg.v_rnd_1, msg.v_rnd_2>>,
                        val |-> msg.v_val] \in votes}
    IN
    (msg.slot \in prop[p].current_instances /\ <<msg.v_rnd_1, msg.v_rnd_2>> = prop[p].c_rnd)
        => count_of(prop[p].phase2b_msgs[msg.slot], as_tuple(msg.v_val)) < Cardinality(senders)

NextRestart ==
    \/ \E p \in Proposers : \E msg \in network.proposers :
          undelivered_phase1b(p, msg) /\ ProposerPhase1B(p, msg)
    \/ \E p \in Proposers : \E msg \in network.proposers :
          undelivered_phase2b(p, msg) /\ ProposerPhase2B(p, msg)
    \/ \E a \in Acceptors : \E msg \in network.acceptors : AcceptorPhase1A(a, msg)
    \/ \E a \in Acceptors : \E msg \in network.acceptors : AcceptorPhase2A(a, msg)
    \/ \E a \in RestartingAcceptors : AcceptorRestart(a)

SpecRestart == Init /\ [][NextRestart]_vars

(***************************************************************************)
(* Claims.                                                                 *)
(***************************************************************************)
\* floor(N/2) + 1 of the claims
Majority == (TOTAL_ACCEPTORS \div 2) + 1

\* the lines learner l printed for instance i
delivered(l, i) ==
    {lrn[l].stdout[k].line : k \in {j \in 1..Len(lrn[l].stdout) : lrn[l].stdout[j].slot = i}}

\* C1 Agreement: for every instance, no two learners deliver different
\* values and no learner delivers two different values, under loss,
\* duplication and reordering of datagrams.
C1_Agreement ==
    \A l1 \in Learners : \A l2 \in Learners : \A i \in Instances :
        Cardinality(delivered(l1, i) \cup delivered(l2, i)) <= 1

\* C2 Decision uniqueness: with two proposers driving one instance with
\* different ballots and values, all DECISION datagrams broadcast for the
\* instance carry the same value.
C2_DecisionUnique ==
    \A m1 \in network.learners : \A m2 \in network.learners :
        (m1.type = "DECISION" /\ m2.type = "DECISION" /\ m1.slot = m2.slot)
            => m1.v_val = m2.v_val

\* the acceptors that accepted value v for instance i at ballot b
accepted_by(i, b, v) ==
    {a \in Acceptors : [acc |-> a, slot |-> i, rnd |-> b, val |-> v] \in votes}

\* C4 Decision implies chosen: every DECISION(instance, v) broadcast follows a
\* state in which floor(N/2)+1 distinct acceptors had accepted v for the
\* instance at one and the same ballot.
C4_DecisionChosen ==
    \A m \in network.learners :
        m.type = "DECISION" =>
            \E b \in Ballots : Cardinality(accepted_by(m.slot, b, m.v_val)) >= Majority

\* the acceptors that sent a PHASE1B for instance i and ballot b
promised_by(i, b) ==
    {a \in Acceptors : \E s \in sent1b : s.acc = a /\ s.slot = i /\ s.rnd = b}

\* C5 Phase-1 quorum: a PHASE2A for (instance, b) is sent only after PHASE1B
\* replies for (instance, b) from floor(N/2)+1 distinct acceptors; a
\* duplicated PHASE1B never completes the quorum.
C5_Phase1Quorum ==
    \A m \in network.acceptors :
        m.type = "PHASE2A" =>
            Cardinality(promised_by(m.slot, <<m.c_rnd_1, m.c_rnd_2>>)) >= Majority

\* the run recorded in `last` sent datagram k and it is a PHASE2A of a proposer
sent_phase2a(k) ==
    /\ last.role = "proposer"
    /\ k \in 1..Len(last.out)
    /\ last.out[k][2].type = "PHASE2A"

\* the collected replies of list that carry an accepted value
accepted_replies(list) == {j \in 1..Len(list) : list[j].v_val # None}

\* C3 Value selection: when the proposer sends PHASE2A for (instance, b) and a
\* collected PHASE1B reply carries an accepted value, the PHASE2A carries the
\* value of a collected reply with the highest v_rnd; it carries the head
\* pending command only when no collected reply carries an accepted value.
C3_ValueSelection ==
    \A k \in 1..Len(last.out) :
        sent_phase2a(k) =>
            LET m == last.out[k][2]
                st == prop[last.id]
                list == st.promises[m.slot]
            IN /\ <<m.c_rnd_1, m.c_rnd_2>> = st.c_rnd
               /\ IF accepted_replies(list) # {}
                  THEN \E j \in accepted_replies(list) :
                          /\ \A i \in accepted_replies(list) :
                                 rnd_le(list[i].v_rnd, list[j].v_rnd)
                          /\ m.c_val = json(list[j].v_val)
                  ELSE m.c_val = json(st.pending_values[1])

\* C3 witness: a PHASE2A sent on two replies with different accepted ballots
\* and values, carrying a value that is not the proposer's own command
C3_Witness ==
    /\ sent_phase2a(1)
    /\ LET m == last.out[1][2]
           st == prop[last.id]
           list == st.promises[m.slot]
       IN /\ Len(list) = 2
          /\ accepted_replies(list) = {1, 2}
          /\ list[1].v_rnd # list[2].v_rnd
          /\ list[1].v_val # list[2].v_val
          /\ m.c_val # json(st.pending_values[1])

\* the run recorded in last' is acceptor a handling datagram last'.msg of type t
acceptor_ran(a, t) ==
    /\ last' # last
    /\ last'.role = "acceptor"
    /\ last'.id = a
    /\ last'.msg.type = t

\* what the claim says PHASE1A does to the record `state`
Phase1ARule(state, msg, new, out) ==
    LET b == <<msg.c_rnd_1, msg.c_rnd_2>> IN
    IF rnd_lt(state.rnd, b)
    THEN /\ new = [rnd |-> b, v_rnd |-> state.v_rnd, v_val |-> state.v_val]
         /\ out = << <<"proposers",
                       [type |-> "PHASE1B", rnd_1 |-> b[1], rnd_2 |-> b[2],
                        v_rnd_1 |-> IF state.v_val = None THEN null ELSE state.v_rnd[1],
                        v_rnd_2 |-> IF state.v_val = None THEN null ELSE state.v_rnd[2],
                        v_val |-> state.v_val, slot |-> msg.slot,
                        client_id |-> msg.client_id]>> >>
    ELSE new = state /\ out = <<>>

\* C6 Acceptor Phase-1a rule: on PHASE1A(instance, b), if b > rnd[instance]
\* the acceptor sets rnd[instance] = b and sends one PHASE1B carrying rnd = b
\* and its last accepted ballot and value (both null when nothing has been
\* accepted); otherwise the record is unchanged and no message is sent.
C6_Phase1ARule ==
    /\ [](\A a \in Acceptors : \A msg \in Phase1AMessages :
            LET r == acceptor_phase1a(acceptor_states[a][msg.slot], msg) IN
            Phase1ARule(acceptor_states[a][msg.slot], msg, r.state, r.out))
    /\ [][\A a \in Acceptors :
            acceptor_ran(a, "PHASE1A") =>
                /\ Phase1ARule(acceptor_states[a][last'.msg.slot], last'.msg,
                               acceptor_states'[a][last'.msg.slot], last'.out)
                /\ \A x \in Acceptors : \A i \in Instances :
                       (x # a \/ i # last'.msg.slot) =>
                           acceptor_states'[x][i] = acceptor_states[x][i]]_vars

\* C6 witness: a promise that reports a value accepted earlier
C6_Witness ==
    /\ last.role = "acceptor"
    /\ last.msg.type = "PHASE1A"
    /\ last.out # <<>>
    /\ last.out[1][2].v_rnd_1 # null
    /\ acceptor_states[last.id][last.msg.slot].rnd = <<last.msg.c_rnd_1, last.msg.c_rnd_2>>

\* what the claim says PHASE2A does to the record `state`
Phase2ARule(state, msg, new, out) ==
    LET b == <<msg.c_rnd_1, msg.c_rnd_2>> IN
    IF rnd_le(state.rnd, b)
    THEN /\ new = [rnd |-> b, v_rnd |-> b, v_val |-> msg.c_val]
         /\ out = << <<"proposers",
                       [type |-> "PHASE2B", v_rnd_1 |-> b[1], v_rnd_2 |-> b[2],
                        v_val |-> msg.c_val, slot |-> msg.slot,
                        client_id |-> msg.client_id]>> >>
    ELSE new = state /\ out = <<>>

\* C7 Acceptor Phase-2a rule: on PHASE2A(instance, b, v), if b >= rnd[instance]
\* the acceptor sets rnd = b, v_rnd = b, v_val = v for the instance and sends
\* one PHASE2B(b, v) to the proposers; if b < rnd[instance] the record is
\* unchanged and no message is sent.
C7_Phase2ARule ==
    /\ [](\A a \in Acceptors : \A msg \in Phase2AMessages :
            LET r == acceptor_phase2a(acceptor_states[a][msg.slot], msg) IN
            Phase2ARule(acceptor_states[a][msg.slot], msg, r.state, r.out))
    /\ [][\A a \in Acceptors :
            acceptor_ran(a, "PHASE2A") =>
                /\ Phase2ARule(acceptor_states[a][last'.msg.slot], last'.msg,
                               acceptor_states'[a][last'.msg.slot], last'.out)
                /\ \A x \in Acceptors : \A i \in Instances :
                       (x # a \/ i # last'.msg.slot) =>
                           acceptor_states'[x][i] = acceptor_states[x][i]]_vars

\* C7 witness: a PHASE2A has been accepted and answered, and the record holds
\* its ballot as rnd and v_rnd and its value as v_val
C7_Witness ==
    /\ last.role = "acceptor"
    /\ last.msg.type = "PHASE2A"
    /\ last.out # <<>>
    /\ acceptor_states[last.id][last.msg.slot] =
           [rnd |-> <<last.msg.c_rnd_1, last.msg.c_rnd_2>>,
            v_rnd |-> <<last.msg.c_rnd_1, last.msg.c_rnd_2>>,
            v_val |-> last.msg.c_val]

\* C8 AcceptorRecord invariant: in every reachable state and for every
\* instance v_rnd <= rnd, and v_rnd and v_val are only ever written together,
\* by a PHASE2A carrying that ballot and that value, so that a non-null v_val
\* goes with the ballot of the PHASE2A that wrote it.
C8_AcceptorRecord ==
    /\ [](\A a \in Acceptors : \A i \in Instances :
            rnd_le(acceptor_states[a][i].v_rnd, acceptor_states[a][i].rnd))
    /\ [][\A a \in Acceptors : \A i \in Instances :
            (\/ acceptor_states'[a][i].v_val # acceptor_states[a][i].v_val
             \/ acceptor_states'[a][i].v_rnd # acceptor_states[a][i].v_rnd) =>
                /\ acceptor_ran(a, "PHASE2A")
                /\ last'.msg.slot = i
                /\ acceptor_states'[a][i].v_rnd = <<last'.msg.c_rnd_1, last'.msg.c_rnd_2>>
                /\ acceptor_states'[a][i].v_val = last'.msg.c_val]_vars

\* C8 witness: a value accepted at one ballot, then a higher ballot promised
C8_Witness ==
    \E a \in Acceptors : \E i \in Instances :
        /\ acceptor_states[a][i].v_val # None
        /\ rnd_lt(acceptor_states[a][i].v_rnd, acceptor_states[a][i].rnd)

\* C9 Ordered delivery: the instances a learner prints are exactly 0, 1, 2,
\* ... with no gap and no repetition, each line being the recorded value; a
\* recorded instance above next_to_print is held back exactly while a lower
\* instance is not recorded.
C9_OrderedDelivery ==
    \A l \in Learners :
        LET st == lrn[l] IN
        /\ \A k \in 1..Len(st.stdout) :
               /\ st.stdout[k].slot = k - 1
               /\ st.stdout[k].slot \in DOMAIN st.decisions
               /\ st.stdout[k].line = st.decisions[st.stdout[k].slot]
        /\ Len(st.stdout) = st.next_to_print
        /\ st.next_to_print \notin DOMAIN st.decisions

\* C9 witness: the DECISION of instance 0 arrives after that of instance 1,
\* and both are printed by the run that records instance 0
C9_Witness ==
    /\ last.role = "learner"
    /\ last.msg.type = "DECISION"
    /\ last.msg.slot = 0
    /\ lrn[last.id].decision_counts[0] = 1
    /\ Len(lrn[last.id].stdout) = 2

\* C10 Duplicate tolerance at the learner: handling again a DECISION datagram
\* the learner has already processed changes neither the recorded values nor
\* next_to_print and prints nothing.
C10_DuplicateTolerance ==
    [][\A l \in Learners :
         (/\ last' # last
          /\ last'.role = "learner"
          /\ last'.id = l
          /\ last'.msg.type = "DECISION"
          /\ last'.msg \in handled[l]) =>
             /\ lrn'[l].decisions = lrn[l].decisions
             /\ lrn'[l].next_to_print = lrn[l].next_to_print
             /\ lrn'[l].stdout = lrn[l].stdout]_vars

\* C10 witness: a learner has processed one and the same DECISION twice
C10_Witness ==
    /\ last.role = "learner"
    /\ last.msg.type = "DECISION"
    /\ handled[last.id] = {last.msg}
    /\ lrn[last.id].decision_counts[last.msg.slot] = 2

\* every instance recorded in st is recorded in st2 with the same value
keeps_decisions(st, st2) ==
    \A i \in DOMAIN st.decisions :
        i \in DOMAIN st2.decisions /\ st2.decisions[i] = st.decisions[i]

\* C11 Learner log is append-only: once decisions[instance] has been
\* recorded, no later DECISION or CATCHUP message, including one carrying a
\* different value for that instance, changes or removes it.
C11_AppendOnly ==
    /\ [](\A l \in Learners :
            /\ \A msg \in DecisionMessages :
                   keeps_decisions(lrn[l], learner_decision(lrn[l], msg))
            /\ \A msg \in CatchupResponses :
                   keeps_decisions(lrn[l], learner_catchup(lrn[l], msg)))
    /\ [][\A l \in Learners : keeps_decisions(lrn[l], lrn'[l])]_vars

\* C11 witness: a learner has handled a DECISION or a CATCHUP response that
\* carries, for a recorded instance, a value other than the recorded one
C11_Witness ==
    /\ last.role = "learner"
    /\ \/ /\ last.msg.type = "DECISION"
          /\ lrn[last.id].decisions[last.msg.slot] # last.msg.v_val
       \/ /\ last.msg.type = "CATCHUP"
          /\ \E k \in DOMAIN last.msg.decided :
                 lrn[last.id].decisions[py_int(k)] # last.msg.decided[k]

\* learner l has handled a DECISION whose value is not the one it recorded
\* for that instance
conflict_seen(l) ==
    \E msg \in handled[l] :
        /\ msg.slot \in DOMAIN lrn[l].decisions
        /\ lrn[l].decisions[msg.slot] # msg.v_val

\* C12 Conflicting decision is fatal: once a learner has received a DECISION
\* for an instance it has recorded with a different value, it delivers
\* (prints) no further instance.
C12_ConflictFatal ==
    [][\A l \in Learners : conflict_seen(l) => lrn'[l].stdout = lrn[l].stdout]_vars

\* the run recorded in `last` is an acceptor answering a CATCHUP request
answered_catchup ==
    /\ last.role = "acceptor"
    /\ last.msg.type = "CATCHUP"
    /\ Len(last.out) = 1
    /\ last.out[1][2].type = "CATCHUP"

\* C14 Catch-up response content: the CATCHUP response of an acceptor has in
\* 'decided' an entry for every instance for which the acceptor holds an
\* accepted value, with that value.
C14_CatchupContent ==
    answered_catchup =>
        \A i \in Instances :
            acceptor_states[last.id][i].v_val # None =>
                /\ py_str(i) \in DOMAIN last.out[1][2].decided
                /\ last.out[1][2].decided[py_str(i)] = acceptor_states[last.id][i].v_val

\* C15 Catch-up is read-only: handling a CATCHUP request leaves rnd, v_rnd and
\* v_val of every instance unchanged (the decisions map is written nowhere).
C15_CatchupReadOnly ==
    [][\A a \in Acceptors :
         acceptor_ran(a, "CATCHUP") => acceptor_states' = acceptor_states]_vars

\* C15 witness: a CATCHUP request answered by an acceptor that has promised
\* one ballot and holds a value accepted at another
C15_Witness ==
    /\ answered_catchup
    /\ \E i \in Instances :
          /\ acceptor_states[last.id][i].v_val # None
          /\ acceptor_states[last.id][i].rnd # acceptor_states[last.id][i].v_rnd

\* learner l has printed the decided values of all instances, in order
printed_decided(l) ==
    /\ Len(lrn[l].stdout) = MaxInstance + 1
    /\ \A i \in Instances :
          /\ lrn[l].stdout[i + 1].slot = i
          /\ decided_value(i, lrn[l].stdout[i + 1].line)

\* C13 Catch-up convergence: a learner started after instances 0..k have been
\* decided, with no further traffic and reliable delivery of its CATCHUP
\* request and of the acceptors' CATCHUP responses, eventually prints the
\* decided values of instances 0..k in order.
C13_CatchupConvergence ==
    all_decided ~> \A l \in LearnersUnderTest : printed_decided(l)

printed(l, v) ==
    \E k \in 1..Len(lrn[l].stdout) : lrn[l].stdout[k].line = json(v)

\* C17 Liveness with one proposer: with a single proposer, two reachable
\* acceptors of three and every datagram eventually delivered, every command
\* the proposer has received is eventually decided and printed by every
\* learner the DECISION datagrams reach.
C17_Liveness ==
    \A v \in Commands :
        received(1, v) ~> \A l \in LearnersUnderTest : printed(l, v)

\* C18 The proposer never gives up: for every in-flight instance whose
\* retry timeout has expired, the timeout branch sends a new PHASE1A for the
\* instance with a higher ballot, whatever the time since the phase started.
C18_NeverGivesUp ==
    \A p \in Proposers : \A i \in prop[p].current_instances :
        (prop[p].last_attempts[i] = "late" /\ prop[p].c_rnd[1] < MaxRound) =>
            LET r == proposer_timeout_instance(prop[p], p, i) IN
            \E k \in 1..Len(r.out) :
                /\ r.out[k][1] = "acceptors"
                /\ r.out[k][2].type = "PHASE1A"
                /\ r.out[k][2].slot = i
                /\ rnd_lt(prop[p].c_rnd, <<r.out[k][2].c_rnd_1, r.out[k][2].c_rnd_2>>)

\* the handler result r sends a PHASE1A
restarts(r) == \E k \in 1..Len(r.out) : r.out[k][2].type = "PHASE1A"

\* proposer p holds commands and drives no instance: the instance it drove
\* was decided with a value that is not its head pending command
lost(p) == prop[p].pending_values # <<>> /\ prop[p].current_instances = {}

\* C19 Re-queue after losing an instance: when an instance the proposer is
\* driving is decided with a value different from its head pending command,
\* the command stays in pending_values and some event other than a further
\* PROPOSE makes the proposer start Phase 1 for it.
C19_Requeue ==
    \A p \in Proposers :
        lost(p) =>
            \/ \E msg \in Phase1BMessages : restarts(proposer_phase1b(prop[p], p, msg))
            \/ \E msg \in Phase2BMessages : restarts(proposer_phase2b(prop[p], msg))
            \/ \E i \in prop[p].current_instances :
                   restarts(proposer_timeout_instance(prop[p], p, i))

\* what the claim says a PHASE1B with a higher rnd does to the proposer
PreemptionRule(st, id, msg, new, out) ==
    /\ new.promises[msg.slot] = <<>>
    /\ new.phase2b_msgs[msg.slot] = <<>>
    /\ msg.slot \in new.current_instances
    /\ rnd_lt(<<msg.rnd_1, msg.rnd_2>>, new.c_rnd)
    /\ out = << <<"acceptors",
                  [type |-> "PHASE1A", c_rnd_1 |-> new.c_rnd[1], c_rnd_2 |-> new.c_rnd[2],
                   slot |-> msg.slot, client_id |-> st.pending_values[1][3]]>> >>

\* C20 Preemption on Phase-1b: on a PHASE1B for an in-flight instance whose
\* rnd is higher than its current ballot, the proposer clears the promises
\* and Phase-2b replies collected for the instance and sends a new PHASE1A
\* for the same instance with a ballot strictly greater than the observed rnd.
C20_Preemption ==
    /\ [](\A p \in Proposers : \A msg \in Phase1BMessages :
            (/\ msg.slot \in prop[p].current_instances
             /\ rnd_lt(prop[p].c_rnd, <<msg.rnd_1, msg.rnd_2>>)) =>
                LET r == proposer_phase1b(prop[p], p, msg) IN
                PreemptionRule(prop[p], p, msg, r.st, r.out))
    /\ [][\A p \in Proposers :
            (/\ last' # last
             /\ last'.role = "proposer"
             /\ last'.id = p
             /\ last'.msg.type = "PHASE1B"
             /\ last'.msg.slot \in prop[p].current_instances
             /\ rnd_lt(prop[p].c_rnd, <<last'.msg.rnd_1, last'.msg.rnd_2>>)) =>
                PreemptionRule(prop[p], p, last'.msg, prop'[p], last'.out)]_vars

\* C20 witness: a proposer has handled a PHASE1B with a higher rnd and
\* restarted the instance with the next ballot of its own
C20_Witness ==
    /\ last.role = "proposer"
    /\ last.msg.type = "PHASE1B"
    /\ restarts(last)
    /\ prop[last.id].c_rnd = <<last.msg.rnd_1 + num_proposers, last.id>>
    /\ prop[last.id].promises[last.msg.slot] = <<>>

\* C21 Preemption on Phase-2b: on a PHASE2B for an in-flight instance whose
\* ballot is higher than its current ballot, the proposer abandons the
\* attempt and restarts Phase 1 for the instance with a ballot strictly
\* greater than the observed one.
C21_Preemption2B ==
    \A p \in Proposers : \A msg \in Phase2BMessages :
        (/\ msg.slot \in prop[p].current_instances
         /\ rnd_lt(prop[p].c_rnd, <<msg.v_rnd_1, msg.v_rnd_2>>)) =>
            LET r == proposer_phase2b(prop[p], msg) IN
            \E k \in 1..Len(r.out) :
                /\ r.out[k][2].type = "PHASE1A"
                /\ r.out[k][2].slot = msg.slot
                /\ rnd_lt(<<msg.v_rnd_1, msg.v_rnd_2>>,
                          <<r.out[k][2].c_rnd_1, r.out[k][2].c_rnd_2>>)

\* the run recorded in `last` sent datagram k and it is a PHASE1A or PHASE2A
\* of a proposer
sent_ballot(k) ==
    /\ last.role = "proposer"
    /\ k \in 1..Len(last.out)
    /\ last.out[k][2].type \in {"PHASE1A", "PHASE2A"}

\* C22 Ballot uniqueness across proposers: the second component of every
\* ballot a proposer holds and sends in a PHASE1A or PHASE2A is its own id,
\* so that no two proposers with different ids hold or send the same ballot.
C22_BallotUniqueness ==
    /\ \A p \in Proposers : prop[p].c_rnd[2] = p
    /\ \A p, q \in Proposers : p # q => prop[p].c_rnd # prop[q].c_rnd
    /\ \A k \in 1..Len(last.out) :
           sent_ballot(k) =>
               /\ last.out[k][2].c_rnd_2 = last.id
               /\ <<last.out[k][2].c_rnd_1, last.out[k][2].c_rnd_2>> = prop[last.id].c_rnd

\* C22 witness: the two proposers have reached the same counter, and
\* proposer 1 has sent a PHASE2A with it
C22_Witness ==
    /\ prop[1].c_rnd[1] = prop[2].c_rnd[1]
    /\ sent_ballot(1)
    /\ last.id = 1
    /\ last.out[1][2].type = "PHASE2A"

\* the PHASE1A datagrams proposer p has sent for instance i so far
sent_phase1a(p, i) ==
    {m \in network.acceptors : m.type = "PHASE1A" /\ m.slot = i /\ m.c_rnd_2 = p}

\* C23 No ballot reuse: for every instance, each PHASE1A the proposer sends
\* carries a ballot strictly greater than the ballot of every PHASE1A it sent
\* earlier for the same instance, over any sequence of timeouts and
\* preemptions.
C23_NoBallotReuse ==
    [][\A k \in 1..Len(last'.out) :
         (/\ last' # last
          /\ last'.role = "proposer"
          /\ last'.out[k][2].type = "PHASE1A") =>
             \A m \in sent_phase1a(last'.id, last'.out[k][2].slot) :
                 rnd_lt(<<m.c_rnd_1, m.c_rnd_2>>,
                        <<last'.out[k][2].c_rnd_1, last'.out[k][2].c_rnd_2>>)]_vars

\* C23 witness: a timeout has made the proposer send a PHASE1A for an
\* instance it had sent a PHASE1A for before
C23_Witness ==
    /\ last.role = "proposer"
    /\ last.msg.type = "timeout"
    /\ Len(last.out) = 1
    /\ last.out[1][2].type = "PHASE1A"
    /\ Cardinality(sent_phase1a(last.id, last.out[1][2].slot)) = 2

\* C24 Quorum size and intersection: for every acceptor count N in 1..7,
\* get_quorum(N) equals floor(N/2)+1, and any two subsets of the N acceptors
\* of that size share at least one acceptor.
C24_Quorum ==
    last.role = "get_quorum" =>
        /\ last.quorum = (last.n_acceptors \div 2) + 1
        /\ last.first \cap last.second # {}

\* C24 witness: two quorums of seven acceptors that share exactly one
C24_Witness ==
    /\ last.role = "get_quorum"
    /\ last.n_acceptors = 7
    /\ Cardinality(last.first \cap last.second) = 1

\* the values of the DECISION datagrams sent for instance i
decided_values(i) ==
    {m.v_val : m \in {d \in network.learners : d.type = "DECISION" /\ d.slot = i}}

\* C25 Agreement across acceptor restarts: when one acceptor of the three
\* crashes and restarts with the state the acceptor code gives it at start-up,
\* and the network duplicates no reply, the decisions of an instance still
\* carry one value.
C25_AgreementRestart ==
    \A i \in Instances : Cardinality(decided_values(i)) <= 1

\* C26 Malformed messages are dropped: a datagram that cannot be parsed, or a
\* PHASE1A/PHASE2A without a required field, changes the state of no instance
\* and sends no message.
C26_MalformedDropped ==
    [][(last' # last /\ last'.role = "acceptor" /\ last'.msg \in MalformedDatagrams)
           => (acceptor_states' = acceptor_states /\ last'.out = <<>>)]_vars

\* C27 One value per ballot: once the proposer has sent PHASE2A for
\* (instance, ballot), the PHASE2A it sends on a further PHASE1B reply for that
\* ballot carries the same value.
C27_OneValuePerBallot ==
    \A k \in 1..Len(last.out) :
        sent_phase2a(k) =>
            LET m == last.out[k][2] IN
            \A msg \in Phase1BMessages :
                LET r == proposer_phase1b(prop[last.id], last.id, msg) IN
                \A j \in 1..Len(r.out) :
                    (/\ r.out[j][2].type = "PHASE2A"
                     /\ r.out[j][2].slot = m.slot
                     /\ r.out[j][2].c_rnd_1 = m.c_rnd_1
                     /\ r.out[j][2].c_rnd_2 = m.c_rnd_2)
                        => r.out[j][2].c_val = m.c_val

\* a PHASE1B that is stale for a proposer in state st: for an instance not in
\* flight, or with a ballot below the current one
stale_phase1b(st, msg) ==
    \/ msg.slot \notin st.current_instances
    \/ rnd_lt(<<msg.rnd_1, msg.rnd_2>>, st.c_rnd)

\* a PHASE2B that is stale for a proposer in state st: for an instance not in
\* flight, or with a ballot other than the current one
stale_phase2b(st, msg) ==
    \/ msg.slot \notin st.current_instances
    \/ <<msg.v_rnd_1, msg.v_rnd_2>> # st.c_rnd

\* handler result r leaves the ballot, the collected replies, the queue and
\* the window of st as they are and sends nothing
discards(st, r) ==
    /\ r.out = <<>>
    /\ r.st.c_rnd = st.c_rnd
    /\ r.st.promises = st.promises
    /\ r.st.phase2b_msgs = st.phase2b_msgs
    /\ r.st.pending_values = st.pending_values
    /\ r.st.current_instances = st.current_instances

\* C28 Stale replies are discarded: a PHASE1B with a ballot below the current
\* one, a PHASE2B with a ballot other than the current one, and a PHASE1B or
\* PHASE2B for an instance not in flight change neither ballot, promises,
\* phase2b_msgs, pending_values nor current_instances, and send nothing.
C28_StaleDiscarded ==
    \A p \in Proposers :
        /\ \A msg \in Phase1BMessages :
               stale_phase1b(prop[p], msg)
                   => discards(prop[p], proposer_phase1b(prop[p], p, msg))
        /\ \A msg \in Phase2BMessages :
               stale_phase2b(prop[p], msg)
                   => discards(prop[p], proposer_phase2b(prop[p], msg))

\* C28 witness: proposer 1, preempted to ballot (2,1), holds one promise and
\* one PHASE2B for the instance in flight; replies for a lower ballot exist
C28_Witness ==
    /\ prop[1].current_instances = {0}
    /\ prop[1].c_rnd = <<2, 1>>
    /\ Len(prop[1].promises[0]) = 2
    /\ Len(prop[1].phase2b_msgs[0]) = 1
    /\ \E msg \in Phase1BMessages :
          /\ msg.slot = 0 /\ rnd_lt(<<msg.rnd_1, msg.rnd_2>>, prop[1].c_rnd)
          /\ discards(prop[1], proposer_phase1b(prop[1], 1, msg))
    /\ \E msg \in Phase2BMessages :
          /\ msg.slot = 0 /\ <<msg.v_rnd_1, msg.v_rnd_2>> # prop[1].c_rnd
          /\ discards(prop[1], proposer_phase2b(prop[1], msg))

\* instance i was started by a proposer in state st and is no longer in flight
finished(st, i) == i \notin st.current_instances /\ i < st.next_instance

\* the datagrams of out that are a PHASE1A, PHASE2A or DECISION for instance i
sends_for(out, i) ==
    {k \in 1..Len(out) : /\ out[k][2].type \in {"PHASE1A", "PHASE2A", "DECISION"}
                         /\ out[k][2].slot = i}

\* what proposer p can do next: every branch of its loop on every datagram, and
\* the timeout pass over the instances in flight
proposer_runs(p) ==
    {proposer_propose(prop[p], msg) : msg \in {m \in network.proposers : m.type = "PROPOSE"}}
    \cup {proposer_phase1b(prop[p], p, msg) : msg \in Phase1BMessages}
    \cup {proposer_phase2b(prop[p], msg) : msg \in Phase2BMessages}
    \cup {proposer_timeout_instance(prop[p], p, i) : i \in prop[p].current_instances}

\* C29 No reanimation of a decided instance: the run that broadcasts DECISION
\* for an instance takes it out of flight and sends nothing else for it, and
\* no later run, on a timeout or on any PHASE1B, PHASE2B or PROPOSE, sends a
\* PHASE1A, PHASE2A or DECISION for it or puts it back in flight.
C29_NoReanimation ==
    /\ \A k \in 1..Len(last.out) :
           (last.role = "proposer" /\ last.out[k][2].type = "DECISION") =>
               /\ finished(prop[last.id], last.out[k][2].slot)
               /\ sends_for(last.out, last.out[k][2].slot) = {k}
    /\ \A p \in Proposers : \A i \in Instances :
           finished(prop[p], i) =>
               \A r \in proposer_runs(p) :
                   sends_for(r.out, i) = {} /\ finished(r.st, i)

\* C29 witness: proposer 1 has just broadcast DECISION for instance 0 with a
\* value that is not its own command, which still waits in pending_values; the
\* PHASE2B that completed the quorum arrives again and nothing is sent
C29_Witness ==
    /\ last.role = "proposer" /\ last.id = 1
    /\ last.msg.type = "PHASE2B"
    /\ Len(last.out) = 1 /\ last.out[1][2].type = "DECISION" /\ last.out[1][2].slot = 0
    /\ prop[1].pending_values # <<>>
    /\ prop[1].phase_start_times[0] = "fresh"
    /\ proposer_phase2b(prop[1], last.msg).out = <<>>

\* how often learner state st printed a line for instance i
times_printed(st, i) == Cardinality({k \in 1..Len(st.stdout) : st.stdout[k].slot = i})

\* C30 Learner cursor invariant: after every handled DECISION or CATCHUP, every
\* instance below next_to_print is recorded in decisions and was printed
\* exactly once, next_to_print itself is not recorded, and next_to_print never
\* decreases.
C30_CursorInvariant ==
    /\ [](\A l \in Learners :
             /\ \A i \in 0..(lrn[l].next_to_print - 1) :
                    i \in DOMAIN lrn[l].decisions /\ times_printed(lrn[l], i) = 1
             /\ lrn[l].next_to_print \notin DOMAIN lrn[l].decisions)
    /\ [][\A l \in Learners : lrn'[l].next_to_print >= lrn[l].next_to_print]_vars

\* C30 witness: learner 1 holds instance 1 while instance 0 is missing, then a
\* CATCHUP response brings instance 0 and both lines are printed
C30_Witness ==
    /\ last.role = "learner" /\ last.id = 1
    /\ last.msg.type = "CATCHUP"
    /\ DOMAIN last.msg.decided = {"0"}
    /\ lrn[1].next_to_print = 2
    /\ Len(lrn[1].stdout) = 2
    /\ lrn[1].decision_counts[1] = 1

\* learner l holds an instance above next_to_print, next_to_print is missing
\* and the recovery timeout has expired
gap_expired(l) ==
    /\ \E i \in DOMAIN lrn[l].decisions : i > lrn[l].next_to_print
    /\ lrn[l].start_time = "late"

\* C31 Gap recovery: when a learner has recorded an instance above
\* next_to_print while a lower, decided instance is missing and the recovery
\* timeout expires, its request is answered by the acceptors and the gap is
\* eventually closed: the learner prints the missing instance.
C31_GapRecovery ==
    \A l \in LearnersUnderTest :
        (all_decided /\ gap_expired(l)) ~> (lrn[l].next_to_print > 0)

\* the instances for which a DECISION has been broadcast
decided_slots == {d.slot : d \in {m \in network.learners : m.type = "DECISION"}}

\* C32 Submission order: with a single proposer and 3 acceptors, one of them
\* never heard, the proposer starts instances 0, 1, 2, ... consecutively and
\* the k-th command it received is the value decided for instance k-1.  Step
\* by step: a received command joins the end of the queue; a PHASE1A is for
\* the lowest instance not yet decided; a DECISION is for that instance, with
\* the head of the queue, which it removes.
C32_SubmissionOrder ==
    [][LET queue == prop[1].pending_values
           decisions == network'.learners \ network.learners
           phase1as == {m \in network'.acceptors \ network.acceptors : m.type = "PHASE1A"}
       IN /\ \A d \in decisions :
                /\ d.slot = Cardinality(decided_slots)
                /\ queue # <<>>
                /\ d.v_val = json(Head(queue))
                /\ prop'[1].pending_values = Tail(queue)
          /\ \A m \in phase1as : m.slot = Cardinality(decided_slots')
          /\ (decisions = {} /\ prop'[1].pending_values # queue) =>
                \E msg \in {m \in network.proposers : m.type = "PROPOSE"} :
                    prop'[1].pending_values = Append(queue, py_tuple(msg.value, msg.client_id))
      ]_vars

\* C32 witness: the command of client 2 was received first and decided for
\* instance 0, the command of client 1 second and decided for instance 1
C32_Witness ==
    /\ create_decision_message(py_tuple(2, 2), 0) \in network.learners
    /\ create_decision_message(py_tuple(1, 1), 1) \in network.learners

\* the acceptor's loop run on datagram m1 and then on m2, from states
recv_twice(states, m1, m2) ==
    LET r1 == acceptor_recv(states, m1)
        r2 == acceptor_recv(r1.states, m2)
    IN [states |-> r2.states, out1 |-> r1.out, out2 |-> r2.out]

\* C33 Acceptor instances are independent: handling a PHASE1A or PHASE2A for
\* instance i leaves rnd, v_rnd and v_val of every other instance unchanged,
\* and two datagrams for different instances give the same records and the
\* same replies in either order.
C33_InstancesIndependent ==
    /\ [][(last' # last /\ last'.role = "acceptor") =>
              \A a \in Acceptors : \A j \in AcceptorKeys :
                  (a # last'.id \/ j # last'.msg.slot)
                      => acceptor_states'[a][j] = acceptor_states[a][j]]_vars
    /\ [](\A m1 \in Phase1AForSlots \cup Phase2AForSlots :
             \A m2 \in Phase1AForSlots \cup Phase2AForSlots :
                 m1.slot # m2.slot =>
                     LET r12 == recv_twice(acceptor_states[1], m1, m2)
                         r21 == recv_twice(acceptor_states[1], m2, m1)
                     IN /\ r12.states = r21.states
                        /\ r12.out1 = r21.out2
                        /\ r12.out2 = r21.out1)

\* C33 witness: the acceptor holds a value for instance 0 at ballot (2,2) and
\* has just promised the lower ballot (1,1) for instance 1
C33_Witness ==
    /\ last.role = "acceptor" /\ last.id = 1
    /\ last.msg.type = "PHASE1A" /\ last.msg.slot = 1
    /\ acceptor_states[1][0].v_rnd = <<2, 2>>
    /\ acceptor_states[1][1].rnd = <<1, 1>>
    /\ acceptor_states[1][1].v_val = None

\* C34 Pipeline window of one: current_instances holds at most one instance
\* in every reachable state, over any interleaving of PROPOSE, PHASE1B,
\* PHASE2B and DECISION datagrams and timeouts.
C34_WindowOfOne ==
    \A p \in Proposers : Cardinality(prop[p].current_instances) <= 1

\* C34 witness: two commands were queued, and instance 0 has left the window
\* with no PHASE2B reply counted for it, which only the DECISION branch does;
\* instance 1 is in flight for the command that was queued behind
C34_Witness ==
    /\ prop[1].current_instances = {1}
    /\ prop[1].next_instance = 2
    /\ Len(prop[1].pending_values) = 1
    /\ prop[1].phase2b_msgs[0] = <<>>

\* the commands the clients submit, as they read on the wire
submitted == {json(v) : v \in Commands}

\* the datagrams sent to any group
datagrams == UNION {network[g] : g \in DOMAIN network}

\* C35 Validity: every value a learner prints, and every value carried by a
\* PHASE2A or DECISION datagram, is a (value, client_id) command that a client
\* submitted; no null value is decided or delivered.
C35_Validity ==
    /\ \A d \in datagrams :
          /\ d.type = "PHASE2A" => d.c_val \in submitted
          /\ d.type = "DECISION" => d.v_val \in submitted
    /\ \A l \in Learners : \A k \in 1..Len(lrn[l].stdout) :
          lrn[l].stdout[k].line \in submitted

\* C36 AcceptorRecord invariant of the single-file acceptor: for every
\* instance v_rnd <= rnd, and an acceptor that accepted a value at ballot b
\* never accepts a PHASE2A with a ballot lower than b.
C36_SingleAcceptorRecord ==
    /\ [](\A a \in Acceptors : \A i \in AcceptorKeys :
            rnd_le(single.acceptor_states[a][i].v_rnd, single.acceptor_states[a][i].rnd))
    /\ [][\A a \in Acceptors : \A i \in AcceptorKeys :
            single.acceptor_states[a][i].v_val # None =>
                rnd_le(single.acceptor_states[a][i].v_rnd,
                       single.acceptor_states'[a][i].v_rnd)]_vars

\* the proposer of the single-file variant has sent the DECISION of instance i
single_decided(i) ==
    \E d \in network.learners : d.type = "DECISION" /\ d.slot = i

\* learner l of the single-file variant has printed instance i
single_printed(l, i) ==
    \E k \in 1..Len(single.learner[l].stdout) : single.learner[l].stdout[k].slot = i

\* C37 Single authoritative Decision in the single-file variant: a learner
\* that receives one DECISION datagram for an instance delivers that
\* instance's value; with one proposer, three acceptors and no loss, every
\* instance the proposer decides is eventually printed by the learner.
C37_SingleDecisionDelivered ==
    /\ [][\A l \in LearnersUnderTest :
            (/\ last' # last
             /\ last'.role = "learner" /\ last'.id = l
             /\ last'.msg.type = "DECISION"
             /\ ~ single_printed(l, last'.msg.slot))
            => \E k \in 1..Len(single.learner'[l].stdout) :
                   single.learner'[l].stdout[k] =
                       [slot |-> last'.msg.slot, line |-> last'.msg.v_val[2]]]_vars
    /\ \A l \in LearnersUnderTest : \A i \in Slots :
          single_decided(i) ~> single_printed(l, i)

\* the acceptors that promised ballot b for key, and those that accepted a
\* value at it
fake_promised(key, b) ==
    {a \in Acceptors : key \in DOMAIN fake.state[a] /\ fake.state[a][key].rnd = b}

fake_accepted(key) ==
    {a \in Acceptors : key \in DOMAIN fake.state[a] /\ fake.state[a][key].v_val # null}

\* C38 Majority before deciding in the fake-paxos variant, each role its own
\* process: a Phase2A for a key is sent only after Phase1B replies from a
\* majority of the acceptors, and a Decide for a key only after Phase2B
\* replies from a majority of the acceptors.
C38_FakeMajority ==
    /\ \A d \in network.acceptors :
          d.phase = "Phase2A" =>
              2 * Cardinality(fake_promised(<<d.key_1, d.key_2>>, <<d.c_rnd_1, d.c_rnd_2>>))
                  > TOTAL_ACCEPTORS
    /\ \A d \in network.learners :
          d.phase = "Decide" =>
              2 * Cardinality(fake_accepted(<<d.key_1, d.key_2>>)) > TOTAL_ACCEPTORS

====
